---- MODULE Spec2Model ----
\* Model of the request execution core of the Moltgram TypeScript SDK:
\* HttpClient (constructor, request, shouldRetry, getRetryDelay,
\* parseRateLimitHeaders, handleErrorResponse, getRateLimitInfo) and the
\* error classes it throws.  Each await of the code is a step boundary.
EXTENDS Integers, Sequences, FiniteSets, TLC

\* ---------------------------------------------------------------- bounds
MaxRetries == 3
MaxConcurrentRetries == 1

\* ------------------------------------------------------ program constants
DEFAULT_RETRIES == 3
DEFAULT_TIMEOUT == 30000
DEFAULT_RETRY_DELAY == 1000
MAX_RETRY_DELAY == 30000
DEFAULT_RETRY_AFTER == 60

\* ------------------------------------------------------------ JS values
\* NaN (parseInt of a string without leading digits) and undefined fields
NaN == 0 - 1
\* null where a number is expected (number | null)
NullNumber == 0 - 3
Undefined == 0 - 2
Null == [type |-> "null"]
NoError == [kind |-> "undefined"]
NoResponse == [status |-> 0]

Calls == {"A", "B"}

\* retryDelay values offered to the constructor (0 stands for "not given")
RetryDelays == {0, 16000}
\* retries values offered to the constructor (Undefined = not given)
ConfigRetries == (0 .. MaxRetries) \cup {Undefined}

\* -------------------------------------------------------------- errors
\* class hierarchy of utils/errors: every kind below extends MoltgramError
MoltgramKinds == {"MoltgramError", "AuthenticationError", "ForbiddenError",
                  "NotFoundError", "ValidationError", "RateLimitError",
                  "ConflictError", "NetworkError", "TimeoutError"}

MoltgramError(statusCode, code) ==
    [kind |-> "MoltgramError", statusCode |-> statusCode, code |-> code]

AuthenticationError ==
    [kind |-> "AuthenticationError", statusCode |-> 401, code |-> "UNAUTHORIZED"]

ForbiddenError ==
    [kind |-> "ForbiddenError", statusCode |-> 403, code |-> "FORBIDDEN"]

NotFoundError ==
    [kind |-> "NotFoundError", statusCode |-> 404, code |-> "NOT_FOUND"]

ValidationError(code) ==
    [kind |-> "ValidationError", statusCode |-> 400,
     code |-> IF code = "undefined" THEN "VALIDATION_ERROR" ELSE code]

RateLimitError(retryAfter) ==
    [kind |-> "RateLimitError", statusCode |-> 429, code |-> "RATE_LIMITED",
     retryAfter |-> retryAfter]

ConflictError ==
    [kind |-> "ConflictError", statusCode |-> 409, code |-> "CONFLICT"]

NetworkError ==
    [kind |-> "NetworkError", statusCode |-> 0, code |-> "NETWORK_ERROR"]

TimeoutError ==
    [kind |-> "TimeoutError", statusCode |-> 0, code |-> "TIMEOUT"]

\* errors of the runtime, not of the SDK's taxonomy
\* TypeError: rejected fetch / broken body stream; hasFetch: message includes 'fetch'
TypeError(hasFetch) == [kind |-> "TypeError", hasFetch |-> hasFetch]
\* DOMException AbortError: fetch rejected because controller.abort() ran
AbortError == [kind |-> "AbortError"]
\* SyntaxError: response.json() of a body that is not JSON
SyntaxError == [kind |-> "SyntaxError"]

IsMoltgramError(e) == e.kind \in MoltgramKinds

\* ------------------------------------------------- transport responses
\* A header value is the string the Headers object returns, kept as its
\* sequence of characters; a header that is not sent is not in the map.
Digits == {"0", "1", "2", "3", "4", "5", "6", "7", "8", "9"}

DigitVal(ch) ==
    CASE ch = "0" -> 0 [] ch = "1" -> 1 [] ch = "2" -> 2 [] ch = "3" -> 3
      [] ch = "4" -> 4 [] ch = "5" -> 5 [] ch = "6" -> 6 [] ch = "7" -> 7
      [] ch = "8" -> 8 [] ch = "9" -> 9

RECURSIVE DigitPrefix(_, _)
\* value of the longest prefix of digits of str, acc being the value so far
DigitPrefix(str, acc) ==
    IF str = << >> \/ Head(str) \notin Digits THEN acc
    ELSE DigitPrefix(Tail(str), 10 * acc + DigitVal(Head(str)))

\* parseInt(str, 10) on strings of digits and letters
ParseInt(str) ==
    IF str = << >> \/ Head(str) \notin Digits THEN NaN ELSE DigitPrefix(str, 0)

\* new Date(n * 1000), as the number of milliseconds it holds
DateOfSeconds(n) == IF n = NaN THEN NaN ELSE n * 1000

HeadersA == [limit |-> <<"1", "0">>, remaining |-> <<"5">>, reset |-> <<"1">>]
HeadersB == [limit |-> <<"1", "0">>, remaining |-> <<"0">>, reset |-> <<"2">>]
HeadersLimitOnly == [limit |-> <<"2", "0">>]
HeadersBlank == [limit |-> <<"2", "0">>, remaining |-> << >>, reset |-> <<"3">>]
HeadersNone == << >>
\* all three headers, the remaining one not a number
HeadersNotANumber == [limit |-> <<"1", "0">>, remaining |-> <<"x">>, reset |-> <<"1">>]

ResponseHeaders == {HeadersA, HeadersB, HeadersLimitOnly, HeadersBlank, HeadersNone}

\* Headers.get(name) is a non-empty string
HasValue(headers, name) == name \in DOMAIN headers /\ headers[name] # << >>

Statuses == {200, 204, 304, 400, 401, 403, 404, 409, 429, 500, 503}

\* Response.ok
Ok(status) == status >= 200 /\ status <= 299

\* Bodies: "json" parses to an object with the fields given ("undefined"
\* and Undefined mark a field the object lacks), "text" is not JSON,
\* "broken" is a body whose stream fails while it is read.
JsonBody(code, retryAfter) == [type |-> "json", code |-> code, retryAfter |-> retryAfter]
TextBody == [type |-> "text"]
BrokenBody == [type |-> "broken"]

\* the JSON text null
NullBody == [type |-> "null"]
\* a JSON object with the fields of ApiErrorResponse
ErrorBody(error, code, hint, retryAfter) ==
    [type |-> "json", error |-> error, code |-> code, hint |-> hint,
     retryAfter |-> retryAfter]

\* property access: a field the object lacks reads as undefined
Field(object, name) == IF name \in DOMAIN object THEN object[name] ELSE "undefined"

\* Response.statusText of the statuses the transport answers with
ReasonPhrase(status) ==
    CASE status = 400 -> "Bad Request"
      [] status = 401 -> "Unauthorized"
      [] status = 403 -> "Forbidden"
      [] status = 404 -> "Not Found"
      [] status = 409 -> "Conflict"
      [] status = 429 -> "Too Many Requests"
      [] status = 500 -> "Internal Server Error"
      [] status = 503 -> "Service Unavailable"
      [] OTHER -> ""

Bodies == {TextBody, BrokenBody, JsonBody("undefined", Undefined),
           JsonBody("undefined", 0), JsonBody("SELF_VOTE", 2)}

\* ------------------------------------------------------ HttpClient code
\* parseRateLimitHeaders updating each field whose header arrived
parseRateLimitHeadersMerge(info, headers) ==
    LET old == IF info = Null THEN [limit |-> NaN, remaining |-> NaN, resetAt |-> NaN]
               ELSE info
    IN  IF ~ (HasValue(headers, "limit") \/ HasValue(headers, "remaining")
              \/ HasValue(headers, "reset"))
        THEN info
        ELSE [limit |-> IF HasValue(headers, "limit")
                        THEN ParseInt(headers["limit"]) ELSE old.limit,
              remaining |-> IF HasValue(headers, "remaining")
                            THEN ParseInt(headers["remaining"]) ELSE old.remaining,
              resetAt |-> IF HasValue(headers, "reset")
                          THEN DateOfSeconds(ParseInt(headers["reset"])) ELSE old.resetAt]

\* parseRateLimitHeaders that fills the snapshot once and then keeps it
parseRateLimitHeadersOnce(info, headers) ==
    IF info = Null /\ HasValue(headers, "limit") /\ HasValue(headers, "remaining")
       /\ HasValue(headers, "reset")
    THEN [limit |-> ParseInt(headers["limit"]),
          remaining |-> ParseInt(headers["remaining"]),
          resetAt |-> DateOfSeconds(ParseInt(headers["reset"]))]
    ELSE info

parseRateLimitHeaders(info, headers) ==
    IF HasValue(headers, "limit") /\ HasValue(headers, "remaining") /\ HasValue(headers, "reset")
    THEN [limit |-> ParseInt(headers["limit"]),
          remaining |-> ParseInt(headers["remaining"]),
          resetAt |-> DateOfSeconds(ParseInt(headers["reset"]))]
    ELSE info

\* errorData of handleErrorResponse: what response.json() gave, or the
\* object of the catch clause when it threw
errorDataOf(status, body) ==
    IF body.type = "json" THEN body
    ELSE [type |-> "json",
          error |-> "HTTP " \o ToString(status) \o ": " \o ReasonPhrase(status),
          code |-> "undefined", hint |-> "undefined", retryAfter |-> Undefined]

\* handleErrorResponse without its case 400: a 400 takes the default branch
handleErrorResponseNoCase400(status, body) ==
    LET errorData == errorDataOf(status, body)
        retryAfter == IF errorData.retryAfter = Undefined \/ errorData.retryAfter = 0
                      THEN DEFAULT_RETRY_AFTER ELSE errorData.retryAfter
    IN  IF body = NullBody THEN TypeError(FALSE)
        ELSE CASE status = 401 -> AuthenticationError
               [] status = 403 -> ForbiddenError
               [] status = 404 -> NotFoundError
               [] status = 429 -> RateLimitError(retryAfter)
               [] OTHER -> MoltgramError(status, errorData.code)

\* the error handleErrorResponse throws for a response that is not ok;
\* for the body null, errorData.error throws a TypeError
handleErrorResponse(status, body) ==
    LET errorData == errorDataOf(status, body)
        retryAfter == IF errorData.retryAfter = Undefined \/ errorData.retryAfter = 0
                      THEN DEFAULT_RETRY_AFTER ELSE errorData.retryAfter
    IN  IF body = NullBody THEN TypeError(FALSE)
        ELSE CASE status = 401 -> AuthenticationError
               [] status = 403 -> ForbiddenError
               [] status = 404 -> NotFoundError
               [] status = 429 -> RateLimitError(retryAfter)
               [] status = 400 -> ValidationError(errorData.code)
               [] OTHER -> MoltgramError(status, errorData.code)

\* the message handleErrorResponse passes to the error it throws
errorMessage(status, body) ==
    LET error == Field(errorDataOf(status, body), "error")
    IN  IF error = "undefined" \/ error = "" THEN "Unknown error" ELSE error

\* the hint of the error handleErrorResponse throws: errorData.hint, which
\* AuthenticationError and RateLimitError replace when it is falsy
errorHint(status, body) ==
    LET hint == Field(errorDataOf(status, body), "hint")
        falsy == hint = "undefined" \/ hint = ""
    IN  CASE status = 401 /\ falsy -> "Check your API key"
          [] status = 429 /\ falsy ->
                "Try again in " \o ToString(handleErrorResponse(status, body).retryAfter) \o " seconds"
          [] OTHER -> hint

\* RateLimitError.resetAt, built at time now (ms)
RateLimitResetAt(now, retryAfter) == now + retryAfter * 1000

\* shouldRetry with the budget test off by one: one more retry is granted
shouldRetryOneMore(error, attemptNo, maxRetries) ==
    IF attemptNo > maxRetries THEN FALSE
    ELSE IF IsMoltgramError(error) /\ error.statusCode >= 400 /\ error.statusCode < 500
         THEN error.kind = "RateLimitError"
         ELSE error.kind = "NetworkError"
              \/ (IsMoltgramError(error) /\ error.statusCode >= 500)

\* shouldRetry without the branch that makes 4xx errors terminal
shouldRetryNo4xxBranch(error, attemptNo, maxRetries) ==
    IF attemptNo >= maxRetries THEN FALSE
    ELSE error.kind = "NetworkError"
         \/ (IsMoltgramError(error) /\ error.statusCode >= 400)

\* shouldRetry with the budget test off by one: one retry fewer is granted
shouldRetryOneFewer(error, attemptNo, maxRetries) ==
    IF attemptNo + 1 >= maxRetries THEN FALSE
    ELSE IF IsMoltgramError(error) /\ error.statusCode >= 400 /\ error.statusCode < 500
         THEN error.kind = "RateLimitError"
         ELSE error.kind = "NetworkError"
              \/ (IsMoltgramError(error) /\ error.statusCode >= 500)

shouldRetry(error, attemptNo, maxRetries) ==
    IF attemptNo >= maxRetries THEN FALSE
    ELSE IF IsMoltgramError(error) /\ error.statusCode >= 400 /\ error.statusCode < 500
         THEN error.kind = "RateLimitError"
         ELSE error.kind = "NetworkError"
              \/ (IsMoltgramError(error) /\ error.statusCode >= 500)

RECURSIVE Pow2(_)
Pow2(n) == IF n = 0 THEN 1 ELSE 2 * Pow2(n - 1)

getRetryDelay(attemptNo, error, baseDelay) ==
    IF error.kind = "RateLimitError" THEN error.retryAfter * 1000
    ELSE baseDelay * Pow2(attemptNo)

\* the catch block's normalisation of what was thrown
CaughtError(error) ==
    IF error.kind = "TypeError" /\ error.hasFetch THEN NetworkError ELSE error

\* --------------------------------------------------------------- state
VARIABLES
    retries,        \* HttpClient.retries
    retryDelay,     \* HttpClient.retryDelay
    rateLimitInfo,  \* HttpClient.rateLimitInfo
    callers,        \* the request calls made on the client
    transport,      \* what the transport under fetch can do to an attempt
    pc,             \* where each request call stands
    attempt,        \* the loop variable of each call
    lastError,      \* the local lastError of each call
    response,       \* the response whose body a call is reading
    delay,          \* the delay of the sleep a call is in (or was last in), in ms
    result,         \* what each call resolved with
    fetches,        \* history: number of fetch calls each call has issued
    nSleeps,        \* history: number of sleeps each call has begun
    thrown,         \* history: what the latest failed attempt of each call threw
    aborted,        \* history: number of pending fetches ended by controller.abort()
    updates,        \* history: number of responses with all three headers each call received
    lastFull,       \* history: header map of the latest response with all three headers
    held,           \* the value a caller got from getRateLimitInfo and still holds
    heldId,         \* which snapshot object that value is (0: null was returned)
    built,          \* what the constructor call gave: a client or a ConfigurationError
    config,         \* the configuration passed to the constructor
    envKey,         \* process.env.MOLTBOOK_API_KEY
    apiKey,         \* HttpClient.apiKey
    timeout,        \* HttpClient.timeout
    setArg,         \* history: the key passed to the latest setApiKey call
    setOutcome,     \* history: how that call ended
    setKey,         \* history: the key of the latest setApiKey call that returned
    customHeaders,  \* HttpClient.customHeaders
    baseUrl,        \* HttpClient.baseUrl
    requests,       \* the RequestConfig of each request call
    outgoing,       \* what each call hands to fetch: url and headers
    iter,           \* a page generator: its options, its locals and where it stands
    listCalls,      \* history: the offset of each list call the generator made
    pages,          \* history: the length of each page the list calls returned
    yielded,        \* history: the pages the generator yielded
    forest,         \* how the comment tree was drawn: its size, parents, orders
    comments,       \* the Comment[] handed to flatten and count
    flattened,      \* what flatten returned
    counted,        \* what count returned
    timers,         \* the attempts of each call whose timeout timer is pending
    retryRun,       \* a call of the retry helper: its options, locals, where it stands
    retryLog,       \* history: what that call did, in order
    cache,          \* a cache made by createCache: its options and its store
    cacheLog,       \* history: what the operations on the cache did and returned
    lru,            \* a cache made by createLRUCache
    memo,           \* a function wrapped by memoize, its cache and its pending calls
    scroll,         \* an InfiniteScrollHelper and the fetches it has in flight
    clock           \* Date.now()

vars == <<retries, retryDelay, rateLimitInfo, callers, transport, pc, attempt, lastError,
          response, delay, result, fetches, nSleeps, thrown, aborted, updates, lastFull,
          held, heldId, built, config, envKey, apiKey, timeout, setArg, setOutcome,
          setKey, customHeaders, baseUrl, requests, outgoing, iter, listCalls, pages,
          yielded, forest, comments, flattened, counted, timers, retryRun, retryLog,
          cache, cacheLog, lru, memo, scroll, clock>>

\* what the code that uses the client holds; no step of request writes it
callerVars == <<held, heldId>>

\* the construction of the client and its credential and timeout
configVars == <<built, config, envKey, apiKey, timeout>>

\* the history of the setApiKey calls
keyVars == <<setArg, setOutcome, setKey>>

\* what buildUrl and buildHeaders read besides the credential
wireVars == <<customHeaders, baseUrl, requests>>

\* the page generator and its history
pageVars == <<iter, listCalls, pages, yielded>>

\* the comment tree and what the comment utilities made of it
commentVars == <<forest, comments, flattened, counted>>

\* the retry helper, the caches, memoize, the scroll helper and their clock
retryVars == <<retryRun, retryLog>>
cacheVars == <<cache, cacheLog>>
helperVars == <<retryVars, cacheVars, lru, memo, scroll, clock>>

\* the utilities beside the client: no step of the client writes them
utilVars == <<pageVars, commentVars, helperVars>>

\* the variables no step of request writes
staticVars == <<retries, retryDelay, callers, transport, callerVars, configVars,
                keyVars, wireVars, utilVars>>

\* the variables no step of request after its first writes
clientVars == <<staticVars, outgoing>>

\* the client and its calls: what no helper beside the client writes
clientState ==
    <<retries, retryDelay, rateLimitInfo, callers, transport, pc, attempt, lastError,
      response, delay, result, fetches, nSleeps, thrown, aborted, updates, lastFull,
      callerVars, configVars, keyVars, wireVars, outgoing, timers, pageVars,
      commentVars>>

\* HttpClient constructor: the fields a configuration leaves
\* ------------------------------------------------------- configuration
\* values of a configuration field, with their typeof
Undef == [type |-> "undefined"]
Str(chars) == [type |-> "string", chars |-> chars]
Num(n) == [type |-> "number", n |-> n]

API_KEY_PREFIX == <<"m", "o", "l", "t", "g", "r", "a", "m", "_">>

\* String.prototype.startsWith
StartsWith(chars, prefix) ==
    Len(chars) >= Len(prefix) /\ SubSeq(chars, 1, Len(prefix)) = prefix

\* a value is truthy: not undefined, not '', not 0
Truthy(value) ==
    CASE value.type = "undefined" -> FALSE
      [] value.type = "string" -> value.chars # << >>
      [] value.type = "number" -> value.n # 0

\* 'moltgram_test123', 'moltgram_', 'invalid_key', 'moltgram', '', and 5
KeyTest123 == Str(API_KEY_PREFIX \o <<"t", "e", "s", "t", "1", "2", "3">>)
KeyPrefixOnly == Str(API_KEY_PREFIX)
KeyInvalid == Str(<<"i", "n", "v", "a", "l", "i", "d", "_", "k", "e", "y">>)
KeyShort == Str(<<"m", "o", "l", "t", "g", "r", "a", "m">>)
KeyEmpty == Str(<< >>)

ConfigApiKeys == {Undef, KeyEmpty, KeyTest123, KeyPrefixOnly, KeyInvalid, KeyShort, Num(5)}
ConfigTimeouts == {Undef, Num(0 - 1), Num(0), Num(5000)}
ConfigRetryCounts == {Undef, Num(0 - 1), Num(0), Num(2)}
EnvKeys == {Undef, KeyTest123, KeyInvalid}
SetKeys == {KeyEmpty, KeyTest123, KeyPrefixOnly, KeyInvalid}

Configs ==
    [apiKey : ConfigApiKeys, timeout : ConfigTimeouts, retries : ConfigRetryCounts]

EmptyConfig == [apiKey |-> Undef, timeout |-> Undef, retries |-> Undef]

\* validateConfig without the test of the prefix
validateConfigNoPrefixTest(cfg) ==
    \/ cfg.apiKey # Undef /\ cfg.apiKey.type # "string"
    \/ cfg.timeout # Undef /\ (cfg.timeout.type # "number" \/ cfg.timeout.n <= 0)
    \/ cfg.retries # Undef /\ (cfg.retries.type # "number" \/ cfg.retries.n < 0)

\* validateConfig accepting a timeout of 0
validateConfigZeroTimeout(cfg) ==
    \/ cfg.apiKey # Undef /\ cfg.apiKey.type # "string"
    \/ /\ cfg.apiKey # Undef
       /\ Truthy(cfg.apiKey)
       /\ ~StartsWith(cfg.apiKey.chars, API_KEY_PREFIX)
    \/ cfg.timeout # Undef /\ (cfg.timeout.type # "number" \/ cfg.timeout.n < 0)
    \/ cfg.retries # Undef /\ (cfg.retries.type # "number" \/ cfg.retries.n < 0)

\* MoltgramClient.validateConfig throws a ConfigurationError
validateConfig(cfg) ==
    \/ cfg.apiKey # Undef /\ cfg.apiKey.type # "string"
    \/ /\ cfg.apiKey # Undef
       /\ Truthy(cfg.apiKey)
       /\ ~StartsWith(cfg.apiKey.chars, API_KEY_PREFIX)
    \/ cfg.timeout # Undef /\ (cfg.timeout.type # "number" \/ cfg.timeout.n <= 0)
    \/ cfg.retries # Undef /\ (cfg.retries.type # "number" \/ cfg.retries.n < 0)

\* ------------------------------------------------------ headers and URL
\* header values: plain text, and `Bearer ${apiKey}`
Text(s) == [text |-> s]
Bearer(key) == [scheme |-> "Bearer", credential |-> key]

NoHeaders == << >>

\* object spread { ...base, ...over }: on a key of both, over wins
Spread(base, over) ==
    [k \in DOMAIN base \cup DOMAIN over |->
        IF k \in DOMAIN over THEN over[k] ELSE base[k]]

DefaultHeaders ==
    ("Content-Type" :> Text("application/json"))
    @@ ("User-Agent" :> Text("MoltgramSDK/1.0.0 TypeScript"))

\* buildHeaders that adds the Authorization header whatever apiKey is
buildHeadersAlwaysAuthorization(key, custom, additional) ==
    Spread(Spread(Spread(DefaultHeaders, custom), additional),
           "Authorization" :> Bearer(key))

\* buildHeaders that spreads the per-call headers last, over the credential
buildHeadersCallLast(key, custom, additional) ==
    LET headers == Spread(DefaultHeaders, custom)
    IN  Spread(IF Truthy(key) THEN Spread(headers, "Authorization" :> Bearer(key))
               ELSE headers,
               additional)

\* buildHeaders(additionalHeaders) of a client with this apiKey and customHeaders
buildHeaders(key, custom, additional) ==
    LET headers == Spread(Spread(DefaultHeaders, custom), additional)
    IN  IF Truthy(key) THEN Spread(headers, "Authorization" :> Bearer(key))
        ELSE headers

\* a URL: origin and path segments; a request path: absolute ('/agents/me')
\* or relative ('agents/me')
DEFAULT_BASE_URL == [origin |-> "https://www.moltgram.com", path |-> <<"api", "v1">>]
BaseUrlWithSlash == [origin |-> "https://www.moltgram.com", path |-> <<"api", "v1", "">>]
Path(absolute, segments) == [absolute |-> absolute, segments |-> segments]

\* new URL(path, base): an absolute path replaces the path of the base, a
\* relative one replaces its last segment
ResolveUrl(path, base) ==
    [origin |-> base.origin,
     path |-> IF path.absolute THEN path.segments
              ELSE SubSeq(base.path, 1, Len(base.path) - 1) \o path.segments]

RECURSIVE JoinChars(_)
JoinChars(chars) == IF chars = << >> THEN "" ELSE Head(chars) \o JoinChars(Tail(chars))

\* String(value) of a string or a number
StringOf(value) == IF value.type = "number" THEN ToString(value.n) ELSE JoinChars(value.chars)

\* the entries appended to url.searchParams, only for truthy values
RECURSIVE SearchParamsTruthy(_)
SearchParamsTruthy(query) ==
    IF query = << >> THEN << >>
    ELSE (IF Truthy(Head(query).value)
          THEN <<Head(query).key \o "=" \o StringOf(Head(query).value)>>
          ELSE << >>) \o SearchParamsTruthy(Tail(query))

\* the entries appended to url.searchParams, as 'key=value', in the order
\* of Object.entries(query)
RECURSIVE SearchParams(_)
SearchParams(query) ==
    IF query = << >> THEN << >>
    ELSE (IF Head(query).value # Undef
          THEN <<Head(query).key \o "=" \o StringOf(Head(query).value)>>
          ELSE << >>) \o SearchParams(Tail(query))

buildUrl(base, path, query) ==
    [origin |-> ResolveUrl(path, base).origin,
     path |-> ResolveUrl(path, base).path,
     search |-> SearchParams(query)]

\* a RequestConfig: path, query entries (none: no query) and headers
\* (none: no headers)
\* RequestConfig: a GET without a body, as HttpClient.get makes it
RequestConfig(path, query, headers) ==
    [method |-> "GET", path |-> path, query |-> query, body |-> Undef,
     headers |-> headers]

\* an object the caller passes as the body of a post, with what it holds
ObjectBody(content) == [type |-> "object", content |-> content]

\* the RequestConfig HttpClient.post(path, body) makes
PostRequest(path, body) ==
    [method |-> "POST", path |-> path, query |-> << >>, body |-> body,
     headers |-> NoHeaders]

\* JSON.stringify of an object with one field
JSONStringify(object) ==
    Str(<<"{", "\"", "t", "\"", ":", "\"">> \o object.content \o <<"\"", "}">>)

\* config.body ? JSON.stringify(config.body) : undefined
BodyInit(body) ==
    IF body.type = "object" \/ Truthy(body) THEN JSONStringify(body) ELSE Undef
Entry(key, value) == [key |-> key, value |-> value]

AgentsMe == Path(TRUE, <<"agents", "me">>)
DefaultRequest == RequestConfig(AgentsMe, << >>, NoHeaders)
NotSent == [type |-> "none"]

\* no setApiKey call was made
NoKeySet ==
    /\ setArg = Undef
    /\ setOutcome = "none"
    /\ setKey = Undef

\* no configured headers, the default base URL, and plain requests
PlainWire ==
    /\ customHeaders = NoHeaders
    /\ baseUrl = DEFAULT_BASE_URL
    /\ requests = [c \in {"A", "B"} |-> DefaultRequest]

\* the client object exists: its methods can be called
ClientExists == built \in {"MoltgramClient", "HttpClient"}

\* a client built with no configuration and no environment key
ClientBuilt ==
    /\ built = "HttpClient"
    /\ config = EmptyConfig
    /\ envKey = Undef
    /\ apiKey = Undef
    /\ timeout = DEFAULT_TIMEOUT
    /\ NoKeySet
    /\ PlainWire

ConstructedRetries(cfgRetries) ==
    IF cfgRetries = Undefined THEN DEFAULT_RETRIES ELSE cfgRetries

ConstructedRetryDelay(cfgDelay) ==
    IF cfgDelay = 0 THEN DEFAULT_RETRY_DELAY ELSE cfgDelay

\* no page generator has been made
NoIteration ==
    /\ iter = [pc |-> "none"]
    /\ listCalls = << >>
    /\ pages = << >>
    /\ yielded = << >>

\* no utility beside the client is in use
\* flatten or count was not called
NotCalled == [by |-> "none"]

\* no comment tree is at hand
NoComments ==
    /\ forest = [n |-> 0]
    /\ comments = << >>
    /\ flattened = NotCalled
    /\ counted = NotCalled

\* none of the helpers is in use
RetryIdle == retryRun = [pc |-> "none"] /\ retryLog = << >>
CacheIdle == cache = [made |-> FALSE] /\ cacheLog = << >>
LruIdle == lru = [made |-> FALSE]
MemoIdle == memo = [made |-> FALSE]
ScrollIdle == scroll = [made |-> FALSE]
ClockIdle == clock = 0
HelpersIdle == RetryIdle /\ CacheIdle /\ LruIdle /\ MemoIdle /\ ScrollIdle /\ ClockIdle

UtilitiesIdle == NoIteration /\ NoComments /\ HelpersIdle

\* no request call has started
CallsIdle ==
    /\ rateLimitInfo = Null
    /\ pc = [c \in Calls |-> "idle"]
    /\ attempt = [c \in Calls |-> 0]
    /\ lastError = [c \in Calls |-> NoError]
    /\ response = [c \in Calls |-> NoResponse]
    /\ delay = [c \in Calls |-> 0]
    /\ result = [c \in Calls |-> Null]
    /\ fetches = [c \in Calls |-> 0]
    /\ nSleeps = [c \in Calls |-> 0]
    /\ thrown = [c \in Calls |-> NoError]
    /\ aborted = [c \in Calls |-> 0]
    /\ updates = [c \in Calls |-> 0]
    /\ lastFull = HeadersNone
    /\ held = Null
    /\ heldId = 0
    /\ outgoing = [c \in Calls |-> NotSent]
    /\ timers = [c \in Calls |-> {}]

InitCalls == CallsIdle /\ UtilitiesIdle

\* Transports: the statuses a transport answers with and the ways its
\* fetch can fail ("network": TypeError whose message includes 'fetch',
\* "other": TypeError whose message does not, "timeout": no response in time)
Transport(statuses, failures) == [statuses |-> statuses, failures |-> failures]

AnyTransport == Transport(Statuses, {"network", "other", "timeout"})

Transports ==
    {AnyTransport}
    \cup {Transport({status}, {}) : status \in Statuses}
    \cup {Transport({}, {failure}) : failure \in {"network", "other", "timeout"}}
    \cup {Transport({429, 500, 503}, {"network"}), Transport({200, 429}, {})}

ConcurrentTransport == Transport({200, 500}, {"network", "other", "timeout"})

\* one request call on a client built from any configuration
Init ==
    /\ transport \in Transports
    /\ \E cfgRetries \in ConfigRetries : retries = ConstructedRetries(cfgRetries)
    /\ \E cfgDelay \in RetryDelays : retryDelay = ConstructedRetryDelay(cfgDelay)
    /\ callers = {"A"}
    /\ ClientBuilt
    /\ InitCalls

\* two request calls on one client
InitConcurrent ==
    /\ \E cfgRetries \in 0 .. MaxConcurrentRetries : retries = ConstructedRetries(cfgRetries)
    /\ retryDelay = ConstructedRetryDelay(0)
    /\ callers = Calls
    /\ transport = ConcurrentTransport
    /\ ClientBuilt
    /\ InitCalls

\* all three rate-limit headers arrive with a value
CarriesAll(headers) ==
    /\ {"limit", "remaining", "reset"} \subseteq DOMAIN headers
    /\ \A name \in {"limit", "remaining", "reset"} : Len(headers[name]) > 0

\* ------------------------------------------------------------- request
\* request() up to its first await: attempt 0 arms its timer and calls fetch
Start(c) ==
    /\ ClientExists
    /\ c \in callers
    /\ pc[c] = "idle"
    /\ IF 0 <= retries
       THEN /\ pc' = [pc EXCEPT ![c] = "fetching"]
            /\ fetches' = [fetches EXCEPT ![c] = @ + 1]
            /\ outgoing' = [outgoing EXCEPT ![c] =
                   [url |-> buildUrl(baseUrl, requests[c].path, requests[c].query),
                    headers |-> buildHeaders(apiKey, customHeaders,
                                             requests[c].headers),
                    method |-> requests[c].method,
                    body |-> BodyInit(requests[c].body)]]
            /\ timers' = [timers EXCEPT ![c] = {0}]
       ELSE /\ pc' = [pc EXCEPT ![c] = "rejected"]
            /\ UNCHANGED <<fetches, outgoing, timers>>
    /\ attempt' = [attempt EXCEPT ![c] = 0]
    /\ UNCHANGED <<staticVars, rateLimitInfo, lastError, response, delay, result,
                   nSleeps, thrown, aborted, updates, lastFull>>

\* the catch block of request, entered with the error thrown in the try
Catch(c, error) ==
    /\ thrown' = [thrown EXCEPT ![c] = error]
    /\ lastError' = [lastError EXCEPT ![c] = CaughtError(error)]
    /\ IF ~ shouldRetry(CaughtError(error), attempt[c], retries)
       THEN /\ pc' = [pc EXCEPT ![c] = "rejected"]
            /\ UNCHANGED <<delay, nSleeps>>
       ELSE /\ pc' = [pc EXCEPT ![c] = "sleeping"]
            /\ delay' = [delay EXCEPT
                 ![c] = getRetryDelay(attempt[c], CaughtError(error), retryDelay)]
            /\ nSleeps' = [nSleeps EXCEPT ![c] = @ + 1]

\* FetchResponse reading the rate-limit headers only of ok responses
FetchResponseHeadersAfterOkTest(c, status, headers, body) ==
    /\ pc[c] = "fetching"
    /\ status \in transport.statuses
    /\ rateLimitInfo' = IF Ok(status) THEN parseRateLimitHeaders(rateLimitInfo, headers)
                        ELSE rateLimitInfo
    /\ response' = [response EXCEPT
         ![c] = [status |-> status, headers |-> headers, body |-> body]]
    /\ pc' = [pc EXCEPT ![c] = "body"]
    /\ lastFull' = IF CarriesAll(headers) THEN headers ELSE lastFull
    /\ updates' = IF CarriesAll(headers) THEN [updates EXCEPT ![c] = @ + 1] ELSE updates
    /\ timers' = [timers EXCEPT ![c] = @ \ {attempt[c]}]
    /\ UNCHANGED <<clientVars, attempt, lastError, delay, result, fetches,
                   nSleeps, thrown, aborted>>

\* fetch resolves: clearTimeout, parseRateLimitHeaders, then the body is awaited
FetchResponse(c, status, headers, body) ==
    /\ pc[c] = "fetching"
    /\ status \in transport.statuses
    /\ rateLimitInfo' = parseRateLimitHeaders(rateLimitInfo, headers)
    /\ response' = [response EXCEPT
         ![c] = [status |-> status, headers |-> headers, body |-> body]]
    /\ pc' = [pc EXCEPT ![c] = "body"]
    /\ lastFull' = IF CarriesAll(headers) THEN headers ELSE lastFull
    /\ updates' = IF CarriesAll(headers) THEN [updates EXCEPT ![c] = @ + 1] ELSE updates
    /\ timers' = [timers EXCEPT ![c] = @ \ {attempt[c]}]
    /\ UNCHANGED <<clientVars, attempt, lastError, delay, result, fetches,
                   nSleeps, thrown, aborted>>

\* response.json() settles: that of request for an ok response, that of
\* handleErrorResponse otherwise
ReadBody(c) ==
    /\ pc[c] = "body"
    /\ IF Ok(response[c].status)
       THEN IF response[c].body.type \in {"json", "null"}
            THEN /\ pc' = [pc EXCEPT ![c] = "resolved"]
                 /\ result' = [result EXCEPT ![c] = response[c].body]
                 /\ UNCHANGED <<lastError, delay, nSleeps, thrown>>
            ELSE /\ Catch(c, IF response[c].body.type = "text"
                             THEN SyntaxError ELSE TypeError(FALSE))
                 /\ UNCHANGED result
       ELSE /\ Catch(c, handleErrorResponse(response[c].status, response[c].body))
            /\ UNCHANGED result
    /\ response' = [response EXCEPT ![c] = NoResponse]
    /\ UNCHANGED <<clientVars, rateLimitInfo, attempt, fetches, aborted, updates, lastFull,
                   timers>>

\* fetch rejects with a TypeError: no response was received; control goes
\* from the await to the catch block, past clearTimeout
FetchNetworkFail(c, hasFetch) ==
    /\ pc[c] = "fetching"
    /\ (IF hasFetch THEN "network" ELSE "other") \in transport.failures
    /\ Catch(c, TypeError(hasFetch))
    /\ UNCHANGED <<clientVars, rateLimitInfo, attempt, response, result,
                   fetches, aborted, updates, lastFull, timers>>

\* no response within the timeout: the timer runs controller.abort() and
\* fetch rejects with an AbortError
FetchTimeout(c) ==
    /\ pc[c] = "fetching"
    /\ "timeout" \in transport.failures
    /\ attempt[c] \in timers[c]
    /\ timers' = [timers EXCEPT ![c] = @ \ {attempt[c]}]
    /\ aborted' = [aborted EXCEPT ![c] = @ + 1]
    /\ Catch(c, AbortError)
    /\ UNCHANGED <<clientVars, rateLimitInfo, attempt, response, result,
                   fetches, updates, lastFull>>

\* sleep ends: attempt++, the loop test, and the next attempt's timer and
\* fetch, with the url and headers of the call and the method and body the
\* RequestConfig holds now
Wake(c) ==
    /\ pc[c] = "sleeping"
    /\ attempt' = [attempt EXCEPT ![c] = @ + 1]
    /\ IF attempt[c] + 1 <= retries
       THEN /\ pc' = [pc EXCEPT ![c] = "fetching"]
            /\ fetches' = [fetches EXCEPT ![c] = @ + 1]
            /\ timers' = [timers EXCEPT ![c] = @ \cup {attempt[c] + 1}]
            /\ outgoing' = [outgoing EXCEPT
                   ![c] = [@ EXCEPT !.method = requests[c].method,
                                    !.body = BodyInit(requests[c].body)]]
       ELSE /\ pc' = [pc EXCEPT ![c] = "rejected"]
            /\ UNCHANGED <<fetches, timers, outgoing>>
    /\ UNCHANGED <<staticVars, rateLimitInfo, lastError, response, delay, result,
                   nSleeps, thrown, aborted, updates, lastFull>>

\* the timer of an attempt that is over fires: controller.abort() on a
\* fetch that has settled changes nothing
StaleTimerFires(c, k) ==
    /\ k \in timers[c]
    /\ pc[c] # "fetching" \/ k # attempt[c]
    /\ timers' = [timers EXCEPT ![c] = @ \ {k}]
    /\ UNCHANGED <<clientVars, rateLimitInfo, pc, attempt, lastError, response, delay,
                   result, fetches, nSleeps, thrown, aborted, updates, lastFull>>

\* what getRateLimitInfo() returns when called in the current state
getRateLimitInfo == rateLimitInfo

Next ==
    \/ \E c \in Calls : Start(c)
    \/ \E c \in Calls, status \in Statuses, headers \in ResponseHeaders, body \in Bodies :
          FetchResponse(c, status, headers, body)
    \/ \E c \in Calls : ReadBody(c)
    \/ \E c \in Calls, hasFetch \in BOOLEAN : FetchNetworkFail(c, hasFetch)
    \/ \E c \in Calls : FetchTimeout(c)
    \/ \E c \in Calls : Wake(c)

Spec == Init /\ [][Next]_vars

\* ------------------------------------------------------- construction
\* new HttpClient(cfg): the fields the constructor assigns
NewHttpClient(cfg) ==
    /\ apiKey' = IF Truthy(cfg.apiKey) THEN cfg.apiKey ELSE envKey
    /\ timeout' = IF Truthy(cfg.timeout) THEN cfg.timeout.n ELSE DEFAULT_TIMEOUT
    /\ retries' = ConstructedRetries(IF cfg.retries = Undef THEN Undefined
                                     ELSE cfg.retries.n)
    /\ retryDelay' = ConstructedRetryDelay(0)

\* new MoltgramClient(cfg): validateConfig, then new HttpClient
ConstructMoltgramClient(cfg) ==
    /\ built = "none"
    /\ config' = cfg
    /\ IF validateConfig(cfg)
       THEN /\ built' = "ConfigurationError"
            /\ UNCHANGED <<apiKey, timeout, retries, retryDelay>>
       ELSE /\ built' = "MoltgramClient"
            /\ NewHttpClient(cfg)
    /\ UNCHANGED <<rateLimitInfo, callers, transport, pc, attempt, lastError, response,
                   delay, result, fetches, nSleeps, thrown, aborted, updates, lastFull,
                   callerVars, envKey, keyVars, wireVars, outgoing,
                   utilVars, timers>>

\* new HttpClient(cfg), the class the package exports
ConstructHttpClient(cfg) ==
    /\ built = "none"
    /\ config' = cfg
    /\ built' = "HttpClient"
    /\ NewHttpClient(cfg)
    /\ UNCHANGED <<rateLimitInfo, callers, transport, pc, attempt, lastError, response,
                   delay, result, fetches, nSleeps, thrown, aborted, updates, lastFull,
                   callerVars, envKey, keyVars, wireVars, outgoing,
                   utilVars, timers>>

\* MoltgramClient.setApiKey storing the key before it tests the prefix
MoltgramClientSetApiKeyStoresFirst(key) ==
    /\ built = "MoltgramClient"
    /\ setArg' = key
    /\ apiKey' = key
    /\ IF StartsWith(key.chars, API_KEY_PREFIX)
       THEN /\ setOutcome' = "returned"
            /\ setKey' = key
       ELSE /\ setOutcome' = "ConfigurationError"
            /\ UNCHANGED setKey
    /\ UNCHANGED <<retries, retryDelay, rateLimitInfo, callers, transport, pc, attempt,
                   lastError, response, delay, result, fetches, nSleeps, thrown,
                   aborted, updates, lastFull, callerVars, built, config, envKey,
                   timeout, wireVars, outgoing,
                   utilVars, timers>>

\* MoltgramClient.setApiKey(key): throws unless key starts with the prefix
MoltgramClientSetApiKey(key) ==
    /\ built = "MoltgramClient"
    /\ setArg' = key
    /\ IF StartsWith(key.chars, API_KEY_PREFIX)
       THEN /\ apiKey' = key
            /\ setOutcome' = "returned"
            /\ setKey' = key
       ELSE /\ setOutcome' = "ConfigurationError"
            /\ UNCHANGED <<apiKey, setKey>>
    /\ UNCHANGED <<retries, retryDelay, rateLimitInfo, callers, transport, pc, attempt,
                   lastError, response, delay, result, fetches, nSleeps, thrown,
                   aborted, updates, lastFull, callerVars, built, config, envKey,
                   timeout, wireVars, outgoing,
                   utilVars, timers>>

\* HttpClient.setApiKey(key)
HttpClientSetApiKey(key) ==
    /\ built = "HttpClient"
    /\ apiKey' = key
    /\ setArg' = key
    /\ setOutcome' = "returned"
    /\ setKey' = key
    /\ UNCHANGED <<retries, retryDelay, rateLimitInfo, callers, transport, pc, attempt,
                   lastError, response, delay, result, fetches, nSleeps, thrown,
                   aborted, updates, lastFull, callerVars, built, config, envKey,
                   timeout, wireVars, outgoing,
                   utilVars, timers>>

\* no client yet; one request will be made once there is one
InitConfig ==
    /\ built = "none"
    /\ config = EmptyConfig
    /\ envKey \in EnvKeys
    /\ apiKey = Undef
    /\ timeout = 0
    /\ retries = 0
    /\ retryDelay = ConstructedRetryDelay(0)
    /\ callers = {"A"}
    /\ transport = Transport({200}, {})
    /\ NoKeySet
    /\ PlainWire
    /\ InitCalls

NextConfig ==
    \/ \E cfg \in Configs : ConstructMoltgramClient(cfg)
    \/ \E cfg \in Configs : ConstructHttpClient(cfg)
    \/ \E key \in SetKeys : MoltgramClientSetApiKey(key)
    \/ \E key \in SetKeys : HttpClientSetApiKey(key)
    \/ \E c \in Calls : Start(c)
    \/ \E c \in Calls : FetchResponse(c, 200, HeadersNone, JsonBody("undefined", Undefined))
    \/ \E c \in Calls : ReadBody(c)

SpecConfig == InitConfig /\ [][NextConfig]_vars

\* ---------------------------------------------------- outgoing requests
CustomHeaderSets ==
    {NoHeaders,
     "X-Trace" :> Text("configured"),
     ("Authorization" :> Text("Basic configured")) @@ ("Content-Type" :> Text("text/plain"))}

CallHeaderSets ==
    {NoHeaders,
     ("X-Trace" :> Text("call")) @@ ("Content-Type" :> Text("text/csv")),
     "Authorization" :> Text("Basic call")}

\* config.baseUrl || process.env.MOLTBOOK_BASE_URL || DEFAULT_BASE_URL
ConstructedBaseUrl(cfgBase) == IF cfgBase = Undef THEN DEFAULT_BASE_URL ELSE cfgBase

\* '/agents/me' as the resources pass it, and 'agents/me'
Paths == {AgentsMe, Path(FALSE, <<"agents", "me">>)}

\* { sort: 'hot', limit: undefined, q: '' } and
\* { limit: 0, offset: 25, submolt: undefined }
Queries ==
    {<< >>,
     <<Entry("sort", Str(<<"h", "o", "t">>)), Entry("limit", Undef), Entry("q", Str(<< >>))>>,
     <<Entry("limit", Num(0)), Entry("offset", Num(25)), Entry("submolt", Undef)>>}

\* configurations that set the apiKey only
KeyConfigs == {cfg \in Configs : cfg.timeout = Undef /\ cfg.retries = Undef}

\* no client yet; the headers and the base URL its configuration will
\* carry, and the one request that will be made, are chosen here
InitOutgoing ==
    /\ built = "none"
    /\ config = EmptyConfig
    /\ envKey \in EnvKeys
    /\ apiKey = Undef
    /\ timeout = 0
    /\ retries = 0
    /\ retryDelay = ConstructedRetryDelay(0)
    /\ callers = {"A"}
    /\ transport = Transport({200}, {})
    /\ NoKeySet
    /\ customHeaders \in CustomHeaderSets
    /\ \E cfgBase \in {Undef, BaseUrlWithSlash} : baseUrl = ConstructedBaseUrl(cfgBase)
    /\ \E path \in Paths, query \in Queries, headers \in CallHeaderSets :
          requests = [c \in Calls |-> RequestConfig(path, query, headers)]
    /\ InitCalls

NextOutgoing ==
    \/ \E cfg \in KeyConfigs : ConstructMoltgramClient(cfg)
    \/ \E cfg \in KeyConfigs : ConstructHttpClient(cfg)
    \/ \E key \in SetKeys : MoltgramClientSetApiKey(key)
    \/ \E key \in SetKeys : HttpClientSetApiKey(key)
    \/ \E c \in Calls : Start(c)
    \/ \E c \in Calls : FetchResponse(c, 200, HeadersNone, JsonBody("undefined", Undefined))
    \/ \E c \in Calls : ReadBody(c)

SpecOutgoing == InitOutgoing /\ [][NextOutgoing]_vars

\* ------------------------------------------------- service error bodies
\* what a service, a proxy or a gateway may send as the body of a response
ServiceBodies ==
    {TextBody, BrokenBody, NullBody}
    \cup {ErrorBody(error, code, hint, retryAfter) :
             error \in {"undefined", "Not here"}, code \in {"undefined", "SELF_VOTE"},
             hint \in {"undefined", "Try later"}, retryAfter \in {Undefined, 0, 2}}

\* one call on a client with no or one retry, on a transport that may
\* answer with any status and any body, or fail
InitService ==
    /\ transport = AnyTransport
    /\ \E cfgRetries \in {0, 1} : retries = ConstructedRetries(cfgRetries)
    /\ retryDelay = ConstructedRetryDelay(0)
    /\ callers = {"A"}
    /\ ClientBuilt
    /\ InitCalls

NextService ==
    \/ \E c \in Calls : Start(c)
    \/ \E c \in Calls, status \in Statuses, body \in ServiceBodies :
          FetchResponse(c, status, HeadersNone, body)
    \/ \E c \in Calls : ReadBody(c)
    \/ \E c \in Calls, hasFetch \in BOOLEAN : FetchNetworkFail(c, hasFetch)
    \/ \E c \in Calls : FetchTimeout(c)
    \/ \E c \in Calls : Wake(c)

SpecService == InitService /\ [][NextService]_vars

\* ------------------------------------------- calls in flight and the caller
\* the caller assigns to a field of the object it passed as the body
CallerMutatesBody(c, content) ==
    /\ requests[c].body.type = "object"
    /\ requests[c].body.content # content
    /\ requests' = [requests EXCEPT ![c].body = ObjectBody(content)]
    /\ UNCHANGED <<retries, retryDelay, rateLimitInfo, callers, transport, pc, attempt,
                   lastError, response, delay, result, fetches, nSleeps, thrown,
                   aborted, updates, lastFull, callerVars, configVars, keyVars,
                   customHeaders, baseUrl, outgoing, utilVars, timers>>

\* the contents the caller gives the body
BodyContents == {<<"a">>, <<"b">>}

\* two posts on a client that holds a key and retries once, against a
\* service that answers 200 or 500 or fails
InitInFlight ==
    /\ built = "HttpClient"
    /\ config = [EmptyConfig EXCEPT !.apiKey = KeyTest123]
    /\ envKey = Undef
    /\ apiKey = KeyTest123
    /\ timeout = DEFAULT_TIMEOUT
    /\ retries = 1
    /\ retryDelay = ConstructedRetryDelay(0)
    /\ callers = Calls
    /\ transport = Transport({200, 500}, {"network"})
    /\ NoKeySet
    /\ customHeaders = NoHeaders
    /\ baseUrl = DEFAULT_BASE_URL
    /\ requests = [c \in Calls |->
                     PostRequest(Path(TRUE, <<"posts">>), ObjectBody(<<"a">>))]
    /\ InitCalls

NextInFlight ==
    \/ \E c \in Calls : Start(c)
    \/ \E c \in Calls, status \in {200, 500} :
          FetchResponse(c, status, HeadersNone, JsonBody("undefined", Undefined))
    \/ \E c \in Calls : ReadBody(c)
    \/ \E c \in Calls : FetchNetworkFail(c, TRUE)
    \/ \E c \in Calls : Wake(c)
    \/ \E key \in {KeyTest123, KeyPrefixOnly} : HttpClientSetApiKey(key)
    \/ \E c \in Calls, content \in BodyContents : CallerMutatesBody(c, content)

SpecInFlight == InitInFlight /\ [][NextInFlight]_vars

\* ------------------------------------------------- timers and progress
\* one call against a service that may answer with any status and body,
\* fail, or never answer, with the timers of finished attempts firing late
NextTimers ==
    \/ \E c \in Calls : Start(c)
    \/ \E c \in Calls, status \in Statuses, body \in ServiceBodies :
          FetchResponse(c, status, HeadersNone, body)
    \/ \E c \in Calls : ReadBody(c)
    \/ \E c \in Calls, hasFetch \in BOOLEAN : FetchNetworkFail(c, hasFetch)
    \/ \E c \in Calls : FetchTimeout(c)
    \/ \E c \in Calls : Wake(c)
    \/ \E c \in Calls, k \in 0 .. MaxRetries : StaleTimerFires(c, k)

\* setTimeout: a timer that stays armed fires and a sleep ends; nothing
\* makes the transport answer or a body complete
TimersFire ==
    \A c \in Calls :
       /\ WF_vars(FetchTimeout(c))
       /\ WF_vars(Wake(c))
       /\ \A k \in 0 .. MaxRetries : WF_vars(StaleTimerFires(c, k))

SpecTimers == InitService /\ [][NextTimers]_vars /\ TimersFire

\* ---------------------------------------------- readers of the snapshot
\* parseRateLimitHeaders assigns a new object each time it finds the three
\* headers: the objects are numbered in the order they are made, and the
\* one the client holds is the latest
SnapshotId == updates["A"] + updates["B"]

\* MoltgramClient.getRateLimitRemaining(): rateLimitInfo?.remaining ?? null
getRateLimitRemaining ==
    IF rateLimitInfo = Null THEN NullNumber ELSE rateLimitInfo.remaining

\* MoltgramClient.getRateLimitReset(): rateLimitInfo?.resetAt ?? null
getRateLimitReset ==
    IF rateLimitInfo = Null THEN NullNumber ELSE rateLimitInfo.resetAt

\* a <= b on numbers: false when either is NaN
LessOrEqual(a, b) == a # NaN /\ b # NaN /\ a <= b

\* isRateLimited without the test for null
isRateLimitedNoNullTest == getRateLimitRemaining <= 0

\* MoltgramClient.isRateLimited(): remaining !== null && remaining <= 0
\* with remaining = this.getRateLimitRemaining()
isRateLimited ==
    getRateLimitRemaining # NullNumber /\ LessOrEqual(getRateLimitRemaining, 0)

\* a caller calls getRateLimitInfo() and keeps what it returns: the
\* client's own object, not a copy of it
CallGetRateLimitInfo ==
    /\ held' = getRateLimitInfo
    /\ heldId' = IF rateLimitInfo = Null THEN 0 ELSE SnapshotId
    /\ UNCHANGED <<retries, retryDelay, rateLimitInfo, callers, transport, pc, attempt,
                   lastError, response, delay, result, fetches, nSleeps, thrown,
                   aborted, updates, lastFull, configVars, keyVars, wireVars,
                   outgoing,
                   utilVars, timers>>

\* the caller assigns to a field of the object it holds; when that object
\* is the one the client holds, the client's snapshot is the object written
CallerWrites(field, value) ==
    /\ held # Null
    /\ held' = [held EXCEPT ![field] = value]
    /\ rateLimitInfo' = IF heldId = SnapshotId THEN held' ELSE rateLimitInfo
    /\ UNCHANGED <<retries, retryDelay, callers, transport, pc, attempt, lastError,
                   response, delay, result, fetches, nSleeps, thrown, aborted,
                   updates, lastFull, heldId, configVars, keyVars, wireVars,
                   outgoing,
                   utilVars, timers>>

\* two calls on one client, answered 200, and a caller that reads the
\* snapshot and writes to what it got
InitReaders ==
    /\ retries = ConstructedRetries(0)
    /\ retryDelay = ConstructedRetryDelay(0)
    /\ callers = Calls
    /\ transport = Transport({200}, {})
    /\ ClientBuilt
    /\ InitCalls

NextReaders ==
    \/ \E c \in Calls : Start(c)
    \/ \E c \in Calls, headers \in {HeadersA, HeadersB, HeadersNotANumber, HeadersNone} :
          FetchResponse(c, 200, headers, JsonBody("undefined", Undefined))
    \/ \E c \in Calls : ReadBody(c)
    \/ CallGetRateLimitInfo
    \/ \E field \in {"limit", "remaining"}, value \in {0, 99} : CallerWrites(field, value)

SpecReaders == InitReaders /\ [][NextReaders]_vars

SpecConcurrent == InitConcurrent /\ [][Next]_vars

\* ------------------------------------------------------ page iteration
DEFAULT_LIMIT == 25
\* DEFAULT_MAX_PAGES
Infinity == 0 - 4

\* the list calls a generator may make before the model stops following it
MaxListCalls == 4

\* a || b on numbers: b when a is undefined, 0 or NaN
OrNumber(a, b) == IF a \in {Undefined, 0, NaN} THEN b ELSE a

\* a destructuring default: b when a is undefined
DefaultTo(a, b) == IF a = Undefined THEN b ELSE a

\* a < b where b may be Infinity
LessThan(a, b) == b = Infinity \/ a < b

\* ListPostsOptions, FeedOptions, PaginationOptions
PageOptions(limit, offset, maxPages, delayMs) ==
    [limit |-> limit, offset |-> offset, maxPages |-> maxPages, delay |-> delayMs]

\* Posts.iterate(options), Feed.iterate(options): the generator before its
\* first next(), with the locals its first statements will set
Iterate(kind, options) ==
    [kind |-> kind, options |-> options, pc |-> "start",
     limit |-> OrNumber(options.limit, DEFAULT_LIMIT),
     offset |-> OrNumber(options.offset, 0),
     hasMore |-> TRUE, page |-> 0, maxPages |-> Infinity, delay |-> 0,
     length |-> 0]

\* paginate(fetchFn, options)
Paginate(options) ==
    [kind |-> "paginate", options |-> options, pc |-> "start",
     limit |-> DefaultTo(options.limit, DEFAULT_LIMIT),
     offset |-> DefaultTo(options.offset, 0),
     hasMore |-> TRUE, page |-> 0,
     maxPages |-> DefaultTo(options.maxPages, Infinity),
     delay |-> DefaultTo(options.delay, 0),
     length |-> 0]

\* the condition of the while loop
LoopTest(it) ==
    IF it.kind = "paginate" THEN LessThan(it.page, it.maxPages) ELSE it.hasMore

\* the statements after the yield that go on whatever the page's length
AdvanceWhateverLength(it) ==
    IF it.kind = "paginate"
    THEN LET next == [it EXCEPT !.offset = @ + it.limit, !.page = @ + 1]
         IN  IF next.delay > 0 /\ LessThan(next.page, next.maxPages)
             THEN [next EXCEPT !.pc = "sleeping"]
             ELSE [next EXCEPT !.pc = "loop"]
    ELSE [it EXCEPT !.offset = @ + it.limit, !.pc = "loop"]

\* the statements between the yield and the next test of the loop; length
\* is results.length of the page yielded
Advance(it) ==
    IF it.kind = "paginate"
    THEN IF it.length < it.limit
         THEN [it EXCEPT !.pc = "done"]
         ELSE LET next == [it EXCEPT !.offset = @ + it.limit, !.page = @ + 1]
              IN  IF next.delay > 0 /\ LessThan(next.page, next.maxPages)
                  THEN [next EXCEPT !.pc = "sleeping"]
                  ELSE [next EXCEPT !.pc = "loop"]
    ELSE [it EXCEPT !.offset = @ + it.limit,
                    !.hasMore = (it.length = it.limit),
                    !.pc = "loop"]

\* what the page utilities leave alone
pageFrame ==
    <<retries, retryDelay, rateLimitInfo, callers, transport, pc, attempt, lastError,
      response, delay, result, fetches, nSleeps, thrown, aborted, updates, lastFull,
      callerVars, configVars, keyVars, wireVars, outgoing, commentVars, timers,
      helperVars>>

\* the top of the loop: the test, and the list call when it passes
Loop(it) ==
    IF LoopTest(it)
    THEN /\ Len(listCalls) < MaxListCalls
         /\ iter' = [it EXCEPT !.pc = "fetching"]
         /\ listCalls' = Append(listCalls, it.offset)
    ELSE /\ iter' = [it EXCEPT !.pc = "done"]
         /\ UNCHANGED listCalls

\* the consumer's first next()
FirstNext ==
    /\ iter.pc = "start"
    /\ Loop(iter)
    /\ UNCHANGED <<pages, yielded, pageFrame>>

\* the list call resolves with a page of len items
ListResolves(len) ==
    /\ iter.pc = "fetching"
    /\ pages' = Append(pages, len)
    /\ IF len = 0
       THEN /\ iter' = [iter EXCEPT !.pc = "done"]
            /\ UNCHANGED yielded
       ELSE /\ iter' = [iter EXCEPT !.pc = "yielded", !.length = len]
            /\ yielded' = Append(yielded, [offset |-> iter.offset, length |-> len])
    /\ UNCHANGED <<listCalls, pageFrame>>

\* the list call rejects: the generator throws what it threw
ListRejects ==
    /\ iter.pc = "fetching"
    /\ iter' = [iter EXCEPT !.pc = "failed"]
    /\ UNCHANGED <<listCalls, pages, yielded, pageFrame>>

\* the consumer's next() after a page
NextAfterYield ==
    /\ iter.pc = "yielded"
    /\ LET it == Advance(iter)
       IN  IF it.pc = "loop"
           THEN Loop(it)
           ELSE iter' = it /\ UNCHANGED listCalls
    /\ UNCHANGED <<pages, yielded, pageFrame>>

\* the sleep between two pages of paginate ends
PageSleepEnds ==
    /\ iter.pc = "sleeping"
    /\ Loop(iter)
    /\ UNCHANGED <<pages, yielded, pageFrame>>

\* the consumer leaves its for await loop after a page
ConsumerReturns ==
    /\ iter.pc = "yielded"
    /\ iter' = [iter EXCEPT !.pc = "returned"]
    /\ UNCHANGED <<listCalls, pages, yielded, pageFrame>>

\* the options the consumers pass
PageLimits == {Undefined, 0, 1, 2}
PageOffsets == {Undefined, 3}
PageMaxPages == {Undefined, 0, 1, 2}
PageDelays == {Undefined, 5}

\* the lengths of the pages the service answers with: none, fewer than
\* asked, as many, more
PageLengths(limit) == {len \in {0, limit - 1, limit, limit + 1} : len >= 0}

InitPages ==
    /\ retries = ConstructedRetries(0)
    /\ retryDelay = ConstructedRetryDelay(0)
    /\ callers = {"A"}
    /\ transport = Transport({200}, {})
    /\ ClientBuilt
    /\ CallsIdle
    /\ \/ \E kind \in {"Posts.iterate", "Feed.iterate"},
             limit \in PageLimits, offset \in PageOffsets :
               iter = Iterate(kind, PageOptions(limit, offset, Undefined, Undefined))
       \/ \E limit \in PageLimits, offset \in PageOffsets,
             maxPages \in PageMaxPages, delayMs \in PageDelays :
               iter = Paginate(PageOptions(limit, offset, maxPages, delayMs))
    /\ listCalls = << >>
    /\ pages = << >>
    /\ yielded = << >>
    /\ NoComments
    /\ HelpersIdle

NextPages ==
    \/ FirstNext
    \/ \E len \in PageLengths(iter.limit) : ListResolves(len)
    \/ ListRejects
    \/ NextAfterYield
    \/ PageSleepEnds
    \/ ConsumerReturns

SpecPages == InitPages /\ [][NextPages]_vars

\* ---------------------------------------------------- comment utilities
\* the comments of the largest tree
MaxComments == 4

\* the members of a set of numbers, smallest first
Ascending(S) ==
    [k \in 1 .. Cardinality(S) |->
        CHOOSE m \in S : Cardinality({x \in S : x < m}) = k - 1]

\* the members of a set of numbers, largest first
Descending(S) ==
    [k \in 1 .. Cardinality(S) |->
        CHOOSE m \in S : Cardinality({x \in S : x > m}) = k - 1]

\* the ids of the replies to comment id (0: the top level), in the order
\* the tree lists them
RepliesTo(f, id) ==
    LET ids == {k \in 1 .. f.n : f.parent[k] = id}
    IN  IF f.descending THEN Descending(ids) ELSE Ascending(ids)

\* Comment: a comment with replies carries them in replies; one without
\* carries an empty replies or none, as the tree was drawn
RECURSIVE CommentOf(_, _)
CommentOf(f, id) ==
    LET ids == RepliesTo(f, id)
        own == [id |-> id, parentId |-> f.parent[id]]
    IN  IF ids = << >> /\ f.leaves = "undefined"
        THEN own
        ELSE ("replies" :> [k \in 1 .. Len(ids) |-> CommentOf(f, ids[k])]) @@ own

\* the Comment[] of a tree
CommentsOf(f) ==
    LET ids == RepliesTo(f, 0) IN [k \in 1 .. Len(ids) |-> CommentOf(f, ids[k])]

\* const { replies, ...comment } = item
WithoutReplies(item) == [name \in DOMAIN item \ {"replies"} |-> item[name]]

\* replies?.length, replies && replies.length > 0
HasReplies(item) == "replies" \in DOMAIN item /\ Len(item.replies) > 0

\* traverse of flatten that pushes the item as it is
RECURSIVE traverseFlattenKeepsReplies(_)
traverseFlattenKeepsReplies(items) ==
    IF items = << >>
    THEN << >>
    ELSE LET item == Head(items)
         IN  <<item>>
             \o (IF HasReplies(item) THEN traverseFlattenKeepsReplies(item.replies) ELSE << >>)
             \o traverseFlattenKeepsReplies(Tail(items))

\* traverse of flatten and flattenComments: what it pushes to result
RECURSIVE traverseFlatten(_)
traverseFlatten(items) ==
    IF items = << >>
    THEN << >>
    ELSE LET item == Head(items)
         IN  <<WithoutReplies(item)>>
             \o (IF HasReplies(item) THEN traverseFlatten(item.replies) ELSE << >>)
             \o traverseFlatten(Tail(items))

\* traverse of count and countComments: what it adds to total
RECURSIVE traverseCount(_)
traverseCount(items) ==
    IF items = << >>
    THEN 0
    ELSE LET item == Head(items)
         IN  1 + (IF HasReplies(item) THEN traverseCount(item.replies) ELSE 0)
               + traverseCount(Tail(items))

\* what the comment utilities leave alone
commentFrame ==
    <<retries, retryDelay, rateLimitInfo, callers, transport, pc, attempt, lastError,
      response, delay, result, fetches, nSleeps, thrown, aborted, updates, lastFull,
      callerVars, configVars, keyVars, wireVars, outgoing, pageVars, timers,
      helperVars>>

\* Comments.flatten(comments), flattenComments(comments)
CallFlatten(by) ==
    /\ flattened = NotCalled
    /\ flattened' = [by |-> by, value |-> traverseFlatten(comments)]
    /\ UNCHANGED <<forest, comments, counted, commentFrame>>

\* Comments.count(comments), countComments(comments)
CallCount(by) ==
    /\ counted = NotCalled
    /\ counted' = [by |-> by, value |-> traverseCount(comments)]
    /\ UNCHANGED <<forest, comments, flattened, commentFrame>>

\* every tree of up to MaxComments comments: comment k replies to a
\* comment numbered below it or stands at the top level
Forests ==
    UNION {[n : {n}, parent : {p \in [1 .. n -> 0 .. n] : \A k \in 1 .. n : p[k] < k},
            descending : BOOLEAN, leaves : {"undefined", "empty"}] :
           n \in 0 .. MaxComments}

InitComments ==
    /\ retries = ConstructedRetries(0)
    /\ retryDelay = ConstructedRetryDelay(0)
    /\ callers = {"A"}
    /\ transport = Transport({200}, {})
    /\ ClientBuilt
    /\ CallsIdle
    /\ NoIteration
    /\ HelpersIdle
    /\ forest \in Forests
    /\ comments = CommentsOf(forest)
    /\ flattened = NotCalled
    /\ counted = NotCalled

NextComments ==
    \/ \E by \in {"Comments.flatten", "flattenComments"} : CallFlatten(by)
    \/ \E by \in {"Comments.count", "countComments"} : CallCount(by)

SpecComments == InitComments /\ [][NextComments]_vars

\* --------------------------------------------------------- retry helper
\* Math.min
MathMin(a, b) == IF a <= b THEN a ELSE b

\* the wait before the next call without the cap of maxDelay
backoffUncapped(delayMs, attemptNo, maxDelay) == delayMs * Pow2(attemptNo)

\* const backoff = Math.min(delay * Math.pow(2, attempt), maxDelay)
backoff(delayMs, attemptNo, maxDelay) == MathMin(delayMs * Pow2(attemptNo), maxDelay)

\* the options of retry; onRetry tells whether a callback was passed
RetryOptions(retryCount, delayMs, maxDelay, onRetry) ==
    [retries |-> retryCount, delay |-> delayMs, maxDelay |-> maxDelay,
     onRetry |-> onRetry]

\* retry(fn, options) before its loop: the destructured options
Retry(options) ==
    [options |-> options, pc |-> "start",
     retries |-> DefaultTo(options.retries, 3),
     delay |-> DefaultTo(options.delay, 1000),
     maxDelay |-> DefaultTo(options.maxDelay, 30000),
     attempt |-> 0, lastError |-> Undefined, settled |-> Undefined]

\* the events of the history: a call of fn, its outcome, a call of
\* onRetry, a call of sleep
FnCalled(k) == [e |-> "fn", k |-> k]
FnResolved(k) == [e |-> "resolved", value |-> k]
FnRejected(k) == [e |-> "rejected", error |-> k]
OnRetryCalled(error, attemptNo) == [e |-> "onRetry", error |-> error, attempt |-> attemptNo]
SleepCalled(ms) == [e |-> "sleep", ms |-> ms]

\* what the retry helper leaves alone
retryFrame == <<clientState, cacheVars, lru, memo, scroll, clock>>

\* the test of the for loop, and the call of fn when it passes; after the
\* loop, throw lastError
RetryLoop(run) ==
    IF run.attempt <= run.retries
    THEN /\ retryRun' = [run EXCEPT !.pc = "calling"]
         /\ retryLog' = Append(retryLog, FnCalled(run.attempt))
    ELSE /\ retryRun' = [run EXCEPT !.pc = "rejected", !.settled = run.lastError]
         /\ UNCHANGED retryLog

\* retry is called
RetryStart ==
    /\ retryRun.pc = "start"
    /\ RetryLoop(retryRun)
    /\ UNCHANGED retryFrame

\* fn resolves: return await fn(); its value is numbered by the call
RetryFnResolves ==
    /\ retryRun.pc = "calling"
    /\ retryRun' = [retryRun EXCEPT !.pc = "resolved", !.settled = retryRun.attempt]
    /\ retryLog' = Append(retryLog, FnResolved(retryRun.attempt))
    /\ UNCHANGED retryFrame

\* fn rejects: the catch block; its error is numbered by the call
RetryFnRejects ==
    /\ retryRun.pc = "calling"
    /\ LET error == retryRun.attempt
           run == [retryRun EXCEPT !.lastError = error]
           ms == backoff(run.delay, run.attempt, run.maxDelay)
       IN  IF run.attempt >= run.retries
           THEN /\ retryRun' = [run EXCEPT !.pc = "rejected", !.settled = error]
                /\ retryLog' = Append(retryLog, FnRejected(error))
           ELSE /\ retryRun' = [run EXCEPT !.pc = "sleeping"]
                /\ retryLog' =
                     retryLog \o <<FnRejected(error)>>
                     \o (IF run.options.onRetry
                         THEN <<OnRetryCalled(error, run.attempt)>> ELSE << >>)
                     \o <<SleepCalled(ms)>>
    /\ UNCHANGED retryFrame

\* the sleep ends: attempt++ and the loop again
RetrySleepEnds ==
    /\ retryRun.pc = "sleeping"
    /\ RetryLoop([retryRun EXCEPT !.attempt = @ + 1])
    /\ UNCHANGED retryFrame

\* the options the callers pass
RetryOptionSets ==
    {RetryOptions(retryCount, delayMs, maxDelay, onRetry) :
        retryCount \in {Undefined, 0, 1, 2}, delayMs \in {Undefined, 0, 500, 16000},
        maxDelay \in {Undefined, 1500}, onRetry \in BOOLEAN}

InitRetry ==
    /\ retries = ConstructedRetries(0)
    /\ retryDelay = ConstructedRetryDelay(0)
    /\ callers = {"A"}
    /\ transport = Transport({200}, {})
    /\ ClientBuilt
    /\ CallsIdle
    /\ NoIteration
    /\ NoComments
    /\ CacheIdle /\ LruIdle /\ MemoIdle /\ ScrollIdle /\ ClockIdle
    /\ \E options \in RetryOptionSets : retryRun = Retry(options)
    /\ retryLog = << >>

NextRetry ==
    \/ RetryStart
    \/ RetryFnResolves
    \/ RetryFnRejects
    \/ RetrySleepEnds

SpecRetry == InitRetry /\ [][NextRetry]_vars

Range(seq) == {seq[i] : i \in 1 .. Len(seq)}

\* ----------------------------------------------------------- createCache
DEFAULT_TTL == 300000
DEFAULT_MAX_SIZE == 1000

\* the latest time the clock of the model reaches
MaxClock == 3

\* a string is truthy unless it is empty
TruthyKey(key) == key # ""

\* CacheEntry, with the key the Map holds it under
CacheEntry(key, value, timestamp, expiresAt) ==
    [key |-> key, value |-> value, timestamp |-> timestamp, expiresAt |-> expiresAt]

\* a Map is the sequence of its entries in insertion order
MapHas(store, key) == \E i \in 1 .. Len(store) : store[i].key = key

MapGet(store, key) == store[CHOOSE i \in 1 .. Len(store) : store[i].key = key]

MapDelete(store, key) == SelectSeq(store, LAMBDA entry : entry.key # key)

\* Map.set: an existing key keeps its place
MapSet(store, entry) ==
    IF MapHas(store, entry.key)
    THEN [i \in 1 .. Len(store) |->
             IF store[i].key = entry.key THEN entry ELSE store[i]]
    ELSE Append(store, entry)

\* isExpired that takes the entry as expired at the time it expires
isExpiredAtExpiry(entry, now) == now >= entry.expiresAt

\* Date.now() > entry.expiresAt
isExpired(entry, now) == now > entry.expiresAt

\* the key evictOldest finds: that of the first entry, in the order of the
\* Map, whose timestamp no other is below
OldestKey(store) ==
    store[CHOOSE i \in 1 .. Len(store) :
             \A j \in 1 .. Len(store) :
                /\ store[i].timestamp <= store[j].timestamp
                /\ store[j].timestamp = store[i].timestamp => i <= j].key

\* evictOldest(): if (oldestKey) store.delete(oldestKey)
evictOldest(store) ==
    IF Len(store) = 0 \/ ~ TruthyKey(OldestKey(store))
    THEN store
    ELSE MapDelete(store, OldestKey(store))

\* the test of the loop of set letting a full store through
setFindsRoomWhenFull(store, maxSize) == Len(store) <= maxSize

\* the loop of set ends here: store.size >= maxSize is false
setFindsRoom(store, maxSize) == Len(store) < maxSize

\* while (store.size >= maxSize) evictOldest() never ends: an evictOldest
\* that removes nothing leaves the test as it was
RECURSIVE setSpins(_, _)
setSpins(store, maxSize) ==
    /\ ~ setFindsRoom(store, maxSize)
    /\ \/ evictOldest(store) = store
       \/ setSpins(evictOldest(store), maxSize)

\* the store when the loop of set has ended
RECURSIVE setEvicts(_, _)
setEvicts(store, maxSize) ==
    IF setFindsRoom(store, maxSize) THEN store
    ELSE setEvicts(evictOldest(store), maxSize)

\* createCache(options): hits and misses, which only stats() reads, are
\* left out
CreateCache(options) ==
    [made |-> TRUE, options |-> options,
     ttl |-> DefaultTo(options.ttl, DEFAULT_TTL),
     maxSize |-> DefaultTo(options.maxSize, DEFAULT_MAX_SIZE),
     refreshOnAccess |-> options.refreshOnAccess,
     store |-> << >>, spinning |-> FALSE]

\* the keys of a Map, in its order
MapKeys(store) == [i \in 1 .. Len(store) |-> store[i].key]

\* what an operation on the cache did: its name, its key, the keys it
\* found in the Map and what it returned
Did(op, key, returned) ==
    [op |-> op, key |-> key, found |-> MapKeys(cache.store), returned |-> returned]

\* what the cache operations leave alone
cacheFrame == <<clientState, retryVars, lru, memo, scroll, clock>>

\* the cache can be called: no call of set is spinning
CacheReady == cache.made /\ ~ cache.spinning

\* what get(key) returns at the time now
getReturns(c, key, now) ==
    IF MapHas(c.store, key) /\ ~ isExpired(MapGet(c.store, key), now)
    THEN MapGet(c.store, key).value
    ELSE Undefined

\* the cache after get(key) at the time now
getLeaves(c, key, now) ==
    IF ~ MapHas(c.store, key) THEN c
    ELSE IF isExpired(MapGet(c.store, key), now)
         THEN [c EXCEPT !.store = MapDelete(@, key)]
         ELSE IF c.refreshOnAccess
              THEN [c EXCEPT !.store =
                      MapSet(@, [MapGet(c.store, key) EXCEPT
                                   !.expiresAt = now + c.ttl])]
              ELSE c

\* the cache after set(key, value) at the time now
setLeaves(c, key, value, now) ==
    IF setSpins(c.store, c.maxSize)
    THEN [c EXCEPT !.spinning = TRUE]
    ELSE [c EXCEPT !.store =
            MapSet(setEvicts(c.store, c.maxSize),
                   CacheEntry(key, value, now, now + c.ttl))]

CacheGet(key) ==
    /\ CacheReady
    /\ cache' = getLeaves(cache, key, clock)
    /\ cacheLog' = Did("get", key, getReturns(cache, key, clock))
    /\ UNCHANGED cacheFrame

CacheSet(key, value) ==
    /\ CacheReady
    /\ cache' = setLeaves(cache, key, value, clock)
    /\ cacheLog' = Did("set", key, Undefined)
    /\ UNCHANGED cacheFrame

CacheHas(key) ==
    /\ CacheReady
    /\ IF ~ MapHas(cache.store, key)
       THEN /\ UNCHANGED cache
            /\ cacheLog' = Did("has", key, FALSE)
       ELSE IF isExpired(MapGet(cache.store, key), clock)
            THEN /\ cache' = [cache EXCEPT !.store = MapDelete(@, key)]
                 /\ cacheLog' = Did("has", key, FALSE)
            ELSE /\ UNCHANGED cache
                 /\ cacheLog' = Did("has", key, TRUE)
    /\ UNCHANGED cacheFrame

CacheDelete(key) ==
    /\ CacheReady
    /\ cache' = [cache EXCEPT !.store = MapDelete(@, key)]
    /\ cacheLog' = Did("delete", key, MapHas(cache.store, key))
    /\ UNCHANGED cacheFrame

CacheClear ==
    /\ CacheReady
    /\ cache' = [cache EXCEPT !.store = << >>]
    /\ cacheLog' = Did("clear", "", Undefined)
    /\ UNCHANGED cacheFrame

CacheCleanup ==
    /\ CacheReady
    /\ LET kept == SelectSeq(cache.store, LAMBDA entry : ~ isExpired(entry, clock))
       IN  /\ cache' = [cache EXCEPT !.store = kept]
           /\ cacheLog' = Did("cleanup", "", Len(cache.store) - Len(kept))
    /\ UNCHANGED cacheFrame

\* keys(), values(), entries(): each lists the entries that are not
\* expired, in the order of the Map; size() counts them all
CacheLists(op) ==
    /\ CacheReady
    /\ LET live == SelectSeq(cache.store, LAMBDA entry : ~ isExpired(entry, clock))
       IN  cacheLog' =
             Did(op, "",
                 CASE op = "keys" -> MapKeys(live)
                   [] op = "values" -> [i \in 1 .. Len(live) |-> live[i].value]
                   [] op = "entries" ->
                        [i \in 1 .. Len(live) |-> <<live[i].key, live[i].value>>]
                   [] op = "size" -> Len(cache.store))
    /\ UNCHANGED <<cache, cacheFrame>>

\* time passes
Tick ==
    /\ clock < MaxClock
    /\ clock' = clock + 1
    /\ UNCHANGED <<clientState, retryVars, cacheVars, lru, memo, scroll>>

CacheKeys == {"", "a", "b"}
CacheValues == {1, 2}

CacheOptions(ttl, maxSize, refreshOnAccess) ==
    [ttl |-> ttl, maxSize |-> maxSize, refreshOnAccess |-> refreshOnAccess]

CacheOptionSets ==
    {CacheOptions(1, maxSize, refreshOnAccess) :
        maxSize \in {0, 1, 2}, refreshOnAccess \in BOOLEAN}
    \cup {CacheOptions(Undefined, 2, FALSE)}

\* what no helper but the cache touches when only the cache is in use
OnlyClient ==
    /\ retries = ConstructedRetries(0)
    /\ retryDelay = ConstructedRetryDelay(0)
    /\ callers = {"A"}
    /\ transport = Transport({200}, {})
    /\ ClientBuilt
    /\ CallsIdle
    /\ NoIteration
    /\ NoComments

InitCache ==
    /\ OnlyClient
    /\ RetryIdle /\ LruIdle /\ MemoIdle /\ ScrollIdle /\ ClockIdle
    /\ \E options \in CacheOptionSets : cache = CreateCache(options)
    /\ cacheLog = << >>

NextCache ==
    \/ \E key \in CacheKeys : CacheGet(key)
    \/ \E key \in CacheKeys, value \in CacheValues : CacheSet(key, value)
    \/ \E key \in CacheKeys : CacheHas(key)
    \/ \E key \in CacheKeys : CacheDelete(key)
    \/ CacheClear
    \/ CacheCleanup
    \/ \E op \in {"keys", "values", "entries", "size"} : CacheLists(op)
    \/ Tick

SpecCache == InitCache /\ [][NextCache]_vars

\* -------------------------------------------------------- createLRUCache
\* what an operation on the LRU cache did: its name, its key, the keys it
\* found in the Map and what it returned
LruDid(op, key, returned) ==
    [op |-> op, key |-> key, found |-> MapKeys(lru.store), returned |-> returned]

\* the keys in use, the least recently used first
Used(used, key) == Append(SelectSeq(used, LAMBDA k : k # key), key)

Unused(used, key) == SelectSeq(used, LAMBDA k : k # key)

\* createLRUCache(maxSize): hits and misses, which only stats() reads, are
\* left out; used is the history of the uses of the keys that are stored
CreateLRUCache(maxSize) ==
    [made |-> TRUE, maxSize |-> maxSize, store |-> << >>, used |-> << >>,
     did |-> << >>]

\* what the operations of the LRU cache leave alone
lruFrame == <<clientState, retryVars, cacheVars, memo, scroll, clock>>

LruGet(key) ==
    /\ lru.made
    /\ IF ~ MapHas(lru.store, key)
       THEN lru' = [lru EXCEPT !.did = LruDid("get", key, Undefined)]
       ELSE LET entry == MapGet(lru.store, key)
            IN  lru' = [lru EXCEPT
                         !.store = Append(MapDelete(@, key), entry),
                         !.used = Used(@, key),
                         !.did = LruDid("get", key, entry.value)]
    /\ UNCHANGED lruFrame

\* the store once set has made room: a stored key is taken out; else, in
\* a full store, the first key is, if (firstKey)
LruRoom(store, maxSize, key) ==
    IF MapHas(store, key) THEN MapDelete(store, key)
    ELSE IF Len(store) >= maxSize /\ Len(store) > 0 /\ TruthyKey(store[1].key)
         THEN Tail(store)
         ELSE store

LruSet(key, value) ==
    /\ lru.made
    /\ LET store == Append(LruRoom(lru.store, lru.maxSize, key),
                           [key |-> key, value |-> value])
       IN  lru' = [lru EXCEPT
                    !.store = store,
                    !.used = SelectSeq(Used(@, key),
                                       LAMBDA k : MapHas(store, k)),
                    !.did = LruDid("set", key, Undefined)]
    /\ UNCHANGED lruFrame

LruHas(key) ==
    /\ lru.made
    /\ lru' = [lru EXCEPT !.did = LruDid("has", key, MapHas(lru.store, key))]
    /\ UNCHANGED lruFrame

LruDelete(key) ==
    /\ lru.made
    /\ lru' = [lru EXCEPT
                !.store = MapDelete(@, key),
                !.used = Unused(@, key),
                !.did = LruDid("delete", key, MapHas(lru.store, key))]
    /\ UNCHANGED lruFrame

LruClear ==
    /\ lru.made
    /\ lru' = [lru EXCEPT !.store = << >>, !.used = << >>,
                          !.did = LruDid("clear", "", Undefined)]
    /\ UNCHANGED lruFrame

\* size(), keys(), cleanup(): reads
LruReads(op) ==
    /\ lru.made
    /\ lru' = [lru EXCEPT !.did =
                 LruDid(op, "",
                        CASE op = "size" -> Len(lru.store)
                          [] op = "keys" -> MapKeys(lru.store)
                          [] op = "cleanup" -> 0)]
    /\ UNCHANGED lruFrame

LruMaxSizes == {0, 1, 2}

InitLru ==
    /\ OnlyClient
    /\ RetryIdle /\ CacheIdle /\ MemoIdle /\ ScrollIdle /\ ClockIdle
    /\ \E maxSize \in LruMaxSizes : lru = CreateLRUCache(maxSize)

NextLru ==
    \/ \E key \in CacheKeys : LruGet(key)
    \/ \E key \in CacheKeys, value \in CacheValues : LruSet(key, value)
    \/ \E key \in CacheKeys : LruHas(key)
    \/ \E key \in CacheKeys : LruDelete(key)
    \/ LruClear
    \/ \E op \in {"size", "keys", "cleanup"} : LruReads(op)

SpecLru == InitLru /\ [][NextLru]_vars

\* ---------------------------------------------------------------- memoize
\* the most invocations of fn for one key the model follows
MaxInvocations == 2

MemoKeys == {"a", "b"}

\* the value fn gives for every key
FnResult == 1

\* memoize(fn, options): its cache, whether fn returns a Promise, the
\* promises of fn that are pending, by key, and the times fn was invoked
\* at, by key
Memoize(options, async) ==
    [made |-> TRUE, async |-> async, cache |-> CreateCache(options),
     pending |-> [key \in MemoKeys |-> 0],
     invoked |-> [key \in MemoKeys |-> << >>]]

\* what memoize and the function it returns leave alone
memoFrame == <<clientState, retryVars, cacheVars, lru, scroll, clock>>

\* the memoized function is called with arguments of this key
MemoCall(key) ==
    /\ memo.made
    /\ LET cached == getReturns(memo.cache, key, clock)
           looked == getLeaves(memo.cache, key, clock)
       IN  IF cached # Undefined
           THEN memo' = [memo EXCEPT !.cache = looked]
           ELSE /\ Len(memo.invoked[key]) < MaxInvocations
                /\ IF memo.async
                   THEN memo' = [memo EXCEPT
                                  !.cache = looked,
                                  !.invoked[key] = Append(@, clock),
                                  !.pending[key] = @ + 1]
                   ELSE memo' = [memo EXCEPT
                                  !.cache = setLeaves(looked, key, FnResult, clock),
                                  !.invoked[key] = Append(@, clock)]
    /\ UNCHANGED memoFrame

\* a promise of fn resolves: value => { cache.set(key, value); ... }
MemoResolves(key) ==
    /\ memo.made
    /\ memo.pending[key] > 0
    /\ memo' = [memo EXCEPT
                 !.cache = setLeaves(@, key, FnResult, clock),
                 !.pending[key] = @ - 1]
    /\ UNCHANGED memoFrame

InitMemo ==
    /\ OnlyClient
    /\ RetryIdle /\ CacheIdle /\ LruIdle /\ ScrollIdle /\ ClockIdle
    /\ \E ttl \in {Undefined, 1}, async \in BOOLEAN :
          memo = Memoize(CacheOptions(ttl, Undefined, FALSE), async)

NextMemo ==
    \/ \E key \in MemoKeys : MemoCall(key)
    \/ \E key \in MemoKeys : MemoResolves(key)
    \/ Tick

SpecMemo == InitMemo /\ [][NextMemo]_vars

\* --------------------------------------------------- InfiniteScrollHelper
\* the most pages one helper is followed for, and the most resets
MaxScrollPages == 3
MaxResets == 1

\* new InfiniteScrollHelper(fetchFn, options). A page is kept as what was
\* asked of fetchFn for it (the offset), how many items came back and how
\* many resets had been made when it was asked for; items holds the pages
\* pushed, fetches the calls of fetchFn that have not settled, did what the
\* latest step of the helper was
InfiniteScrollHelper(limit) ==
    [made |-> TRUE, limit |-> IF limit = Undefined THEN DEFAULT_LIMIT ELSE limit,
     items |-> << >>, loading |-> FALSE, hasMore |-> TRUE, offset |-> 0,
     fetches |-> {}, resets |-> 0, did |-> << >>]

\* what the helper leaves alone; onUpdate is not modelled
scrollFrame == <<clientState, retryVars, cacheVars, lru, memo, clock>>

\* loadMore() up to its await: it returns the items at once when loading
\* or when there is no more, and else calls fetchFn
LoadMore ==
    /\ scroll.made
    /\ IF scroll.loading \/ ~ scroll.hasMore
       THEN scroll' = [scroll EXCEPT !.did = [how |-> "returned at once"]]
       ELSE /\ scroll.offset < MaxScrollPages * scroll.limit
            /\ scroll' = [scroll EXCEPT
                            !.loading = TRUE,
                            !.fetches = @ \cup {[offset |-> scroll.offset,
                                                 resets |-> scroll.resets]},
                            !.did = [how |-> "called fetchFn"]]
    /\ UNCHANGED scrollFrame

\* fetchFn resolves with length items: the rest of the try block, and the
\* finally block
FetchFnResolves(fetch, length) ==
    /\ scroll.made
    /\ fetch \in scroll.fetches
    /\ scroll' = [scroll EXCEPT
                    !.items = Append(@, [offset |-> fetch.offset,
                                         resets |-> fetch.resets,
                                         length |-> length]),
                    !.offset = @ + scroll.limit,
                    !.hasMore = (length = scroll.limit),
                    !.loading = FALSE,
                    !.fetches = @ \ {fetch},
                    !.did = [how |-> "resolved", fetch |-> fetch]]
    /\ UNCHANGED scrollFrame

\* a loadMore whose rejection leaves loading as it is
FetchFnRejectsNoFinally(fetch) ==
    /\ scroll.made
    /\ fetch \in scroll.fetches
    /\ scroll' = [scroll EXCEPT
                    !.fetches = @ \ {fetch},
                    !.did = [how |-> "rejected", fetch |-> fetch]]
    /\ UNCHANGED scrollFrame

\* fetchFn rejects: the finally block, and loadMore rejects with the error
FetchFnRejects(fetch) ==
    /\ scroll.made
    /\ fetch \in scroll.fetches
    /\ scroll' = [scroll EXCEPT
                    !.loading = FALSE,
                    !.fetches = @ \ {fetch},
                    !.did = [how |-> "rejected", fetch |-> fetch]]
    /\ UNCHANGED scrollFrame

\* reset()
ScrollReset ==
    /\ scroll.made
    /\ scroll.resets < MaxResets
    /\ scroll' = [scroll EXCEPT
                    !.items = << >>, !.offset = 0, !.loading = FALSE,
                    !.hasMore = TRUE, !.resets = @ + 1,
                    !.did = [how |-> "reset"]]
    /\ UNCHANGED scrollFrame

ScrollLimits == {Undefined, 2}

\* a page comes back empty, short or full
ScrollLengths(limit) == {0, 1, limit}

InitScroll ==
    /\ OnlyClient
    /\ RetryIdle /\ CacheIdle /\ LruIdle /\ MemoIdle /\ ClockIdle
    /\ \E limit \in ScrollLimits : scroll = InfiniteScrollHelper(limit)

NextScroll ==
    \/ LoadMore
    \/ \E fetch \in scroll.fetches, length \in ScrollLengths(scroll.limit) :
          FetchFnResolves(fetch, length)
    \/ \E fetch \in scroll.fetches : FetchFnRejects(fetch)
    \/ ScrollReset

SpecScroll == InitScroll /\ [][NextScroll]_vars

\* ============================================================== claims
Settled(c) == pc[c] \in {"resolved", "rejected"}

\* an attempt of call c ends in failure in this step
AttemptFails(c) == pc[c] \in {"fetching", "body"} /\ pc'[c] \in {"sleeping", "rejected"}

\* the failures the retry policy names: Network, RateLimited (429), any 5xx
NamedRetryable(error) ==
    \/ error.kind = "NetworkError"
    \/ error.kind = "RateLimitError"
    \/ (IsMoltgramError(error) /\ error.statusCode >= 500)

\* C1: when the attempt with index a fails, the call goes on to a sleep and
\* a further attempt exactly if a < retries and the failure is a
\* NetworkError, a RateLimitError or a MoltgramError with statusCode >= 500;
\* otherwise it rejects in that step with that failure, without a sleep and
\* without another fetch; a sleep always ends in the next attempt's fetch.
C1_RetryDecision ==
    [][\A c \in Calls :
         /\ AttemptFails(c) =>
              IF attempt[c] < retries /\ NamedRetryable(lastError'[c])
              THEN /\ pc'[c] = "sleeping"
                   /\ nSleeps'[c] = nSleeps[c] + 1
              ELSE /\ pc'[c] = "rejected"
                   /\ nSleeps'[c] = nSleeps[c]
                   /\ fetches'[c] = fetches[c]
         /\ (pc[c] = "sleeping" /\ pc'[c] # "sleeping") =>
              /\ pc'[c] = "fetching"
              /\ attempt'[c] = attempt[c] + 1
              /\ fetches'[c] = fetches[c] + 1
         /\ pc[c] = "rejected" => (pc'[c] = "rejected" /\ fetches'[c] = fetches[c])
      ]_vars

\* a call retried a 500 once and then met a 404 with budget left
C1_Witness ==
    /\ pc["A"] = "rejected"
    /\ lastError["A"] = NotFoundError
    /\ fetches["A"] = 2
    /\ nSleeps["A"] = 1
    /\ attempt["A"] < retries

Terminal4xx == {status \in Statuses : status >= 400 /\ status < 500 /\ status # 429}

OnlyRetryableFailures(t) ==
    /\ \A status \in t.statuses : status = 429 \/ status >= 500
    /\ t.failures \subseteq {"network"}

C4_RateLimitWait ==
    [][\A c \in Calls :
         /\ ( /\ pc[c] = "body"
              /\ response[c].status = 429
              /\ response[c].body.type = "json"
              /\ response[c].body.retryAfter # Undefined
              /\ pc'[c] = "sleeping" )
            => delay'[c] = response[c].body.retryAfter * 1000
         /\ ( /\ pc'[c] = "resolved"
              /\ lastError[c].kind = "RateLimitError"
              /\ lastError[c].retryAfter = 2 )
            => delay[c] >= 2000
      ]_vars

Min(a, b) == IF a <= b THEN a ELSE b

\* C5: the wait after a retryable failure other than 429 at attempt index
\* a is min(retryDelay * 2^a, MAX_RETRY_DELAY), so it never exceeds
\* MAX_RETRY_DELAY.
C5_BackoffCapped ==
    \A c \in callers :
        (pc[c] = "sleeping" /\ lastError[c].kind # "RateLimitError") =>
            /\ delay[c] = Min(retryDelay * Pow2(attempt[c]), MAX_RETRY_DELAY)
            /\ delay[c] <= MAX_RETRY_DELAY

\* C6: when the transport does not respond within the timeout, the pending
\* fetch is aborted and the call rejects with a TimeoutError (statusCode 0,
\* code TIMEOUT).
C6_TimeoutSurfaced ==
    \A c \in callers :
        (transport = Transport({}, {"timeout"}) /\ Settled(c)) =>
            /\ pc[c] = "rejected"
            /\ aborted[c] >= 1
            /\ lastError[c] = TimeoutError

\* C7: every network-level failure of an attempt (a TypeError from fetch or
\* from the body stream) is classified as NetworkError (statusCode 0, code
\* NETWORK_ERROR), is retried with the exponential delay while attempts
\* remain, and is what the call rejects with when they run out.
C7_NetworkClassified ==
    \A c \in callers :
        thrown[c].kind = "TypeError" =>
            /\ lastError[c] = NetworkError
            /\ pc[c] = "sleeping" => delay[c] = retryDelay * Pow2(attempt[c])
            /\ pc[c] = "rejected" => attempt[c] = retries

\* the snapshot a response with all three headers stands for
SnapshotOf(headers) ==
    [limit |-> ParseInt(headers["limit"]),
     remaining |-> ParseInt(headers["remaining"]),
     resetAt |-> DateOfSeconds(ParseInt(headers["reset"]))]

\* a response is received by call c in this step
ResponseReceived(c) == pc[c] = "fetching" /\ pc'[c] = "body"

\* C8: every step in which a response carrying the three rate-limit headers
\* is received sets the snapshot to that response's values, whatever the
\* status; every step in which an attempt ends without a response (network
\* failure, timeout) leaves the snapshot unchanged.
C8_SnapshotUpdatedByResponses ==
    [][\A c \in Calls :
         /\ (ResponseReceived(c) /\ CarriesAll(response'[c].headers))
            => rateLimitInfo' = SnapshotOf(response'[c].headers)
         /\ (pc[c] = "fetching" /\ pc'[c] \in {"sleeping", "rejected"})
            => rateLimitInfo' = rateLimitInfo
      ]_vars

\* the first response of a call was a 500 and it set the snapshot
C8_Witness ==
    /\ pc["A"] = "body"
    /\ fetches["A"] = 1
    /\ response["A"].status = 500
    /\ response["A"].headers = HeadersA
    /\ rateLimitInfo = SnapshotOf(HeadersA)

\* the snapshots single responses of the transport stand for
SingleResponseSnapshots ==
    {SnapshotOf(headers) : headers \in {h \in ResponseHeaders : CarriesAll(h)}}

\* C9: the snapshot is null exactly as long as no response with all three
\* headers has been received, and otherwise is the triple of one single
\* response; a response that lacks one of the headers changes no field.
C9_SnapshotWholesale ==
    /\ [](/\ rateLimitInfo = Null <=> lastFull = HeadersNone
          /\ rateLimitInfo # Null => rateLimitInfo \in SingleResponseSnapshots)
    /\ [][\A c \in Calls :
            (ResponseReceived(c) /\ ~ CarriesAll(response'[c].headers))
            => rateLimitInfo' = rateLimitInfo
        ]_vars

\* a response with only the limit header arrived after one with all three
C9_Witness ==
    /\ pc["A"] = "body"
    /\ fetches["A"] = 2
    /\ response["A"].headers = HeadersLimitOnly
    /\ rateLimitInfo = SnapshotOf(HeadersA)

\* C10: with two concurrent calls, once both have settled the snapshot that
\* getRateLimitInfo returns is the triple of the response with all three
\* headers that was processed last, and at every point what it returns is
\* null or the triple of one single response.
C10_LastWriterWins ==
    /\ (\A c \in callers : Settled(c)) =>
          getRateLimitInfo = (IF lastFull = HeadersNone THEN Null
                              ELSE SnapshotOf(lastFull))
    /\ getRateLimitInfo \in {Null} \cup SingleResponseSnapshots

\* both calls are settled, each received one response with all three
\* headers, and the snapshot is that of the one processed last
C10_Witness ==
    /\ callers = Calls
    /\ \A c \in Calls : Settled(c) /\ fetches[c] = 1 /\ updates[c] = 1
    /\ lastFull = HeadersB
    /\ getRateLimitInfo = SnapshotOf(HeadersB)
    /\ getRateLimitInfo.remaining = 0

\* C11: a caller that writes to the value getRateLimitInfo gave it does
\* not change what getRateLimitInfo, getRateLimitRemaining and
\* isRateLimited return afterwards.
C11_ReadersGetCopy ==
    [][(held # Null /\ held' # held /\ heldId' = heldId) =>
          /\ getRateLimitInfo' = getRateLimitInfo
          /\ getRateLimitRemaining' = getRateLimitRemaining
          /\ isRateLimited' = isRateLimited
      ]_vars

\* C13: a 409 response is surfaced as a ConflictError with code CONFLICT,
\* in the step that reads its body: the call rejects without a retry.
C13_ConflictMapped ==
    [][\A c \in Calls :
         (pc[c] = "body" /\ response[c].status = 409 /\ pc'[c] # "body") =>
             /\ pc'[c] = "rejected"
             /\ lastError'[c] = ConflictError
      ]_vars

\* C16: an attempt answered with a 2xx status ends the call: reading the
\* body resolves the call with the parsed body, with no error, no sleep
\* and no further attempt.
C16_SuccessOn2xx ==
    [][\A c \in Calls :
         (pc[c] = "body" /\ Ok(response[c].status) /\ pc'[c] # "body") =>
             /\ pc'[c] = "resolved"
             /\ result'[c] = response[c].body
             /\ thrown'[c] = thrown[c]
             /\ nSleeps'[c] = nSleeps[c]
      ]_vars

\* the step in which handleErrorResponse throws for the response of call c
HandlesErrorResponse(c) ==
    pc[c] = "body" /\ ~Ok(response[c].status) /\ pc'[c] # "body"

\* C14: the RateLimitError of a 429 carries the retryAfter of the body for
\* every number the body supplies, and 60 exactly when it supplies none;
\* its resetAt is the time of its creation plus retryAfter seconds, later
\* than that time when retryAfter > 0.
C14_RetryAfterOfBody ==
    [][\A c \in Calls :
         ( /\ HandlesErrorResponse(c)
           /\ response[c].status = 429
           /\ response[c].body.type = "json" ) =>
             /\ thrown'[c].kind = "RateLimitError"
             /\ thrown'[c].retryAfter =
                   (IF response[c].body.retryAfter = Undefined
                    THEN DEFAULT_RETRY_AFTER ELSE response[c].body.retryAfter)
             /\ \A now \in {0, 5000} :
                   /\ RateLimitResetAt(now, thrown'[c].retryAfter)
                         = now + thrown'[c].retryAfter * 1000
                   /\ thrown'[c].retryAfter > 0 =>
                         RateLimitResetAt(now, thrown'[c].retryAfter) > now
      ]_vars

\* C15: whatever the body of a response that is not ok, handling it throws
\* an error of the taxonomy whose statusCode is the response status, and
\* for a body that cannot be parsed the message is
\* 'HTTP <status>: <reason phrase>'.
C15_ErrorBodiesNeverCrash ==
    [][\A c \in Calls :
         HandlesErrorResponse(c) =>
             /\ IsMoltgramError(thrown'[c])
             /\ thrown'[c].statusCode = response[c].status
             /\ response[c].body.type \in {"text", "broken"} =>
                   errorMessage(response[c].status, response[c].body)
                      = "HTTP " \o ToString(response[c].status) \o ": "
                           \o ReasonPhrase(response[c].status)
      ]_vars

\* C17: the error a call rejects with is an error of the taxonomy with a
\* defined code and a defined hint.
C17_CodeAndHintDefined ==
    [][\A c \in Calls :
         (pc'[c] = "rejected" /\ pc[c] # "rejected") =>
             /\ IsMoltgramError(lastError'[c])
             /\ lastError'[c].code # "undefined"
             /\ pc[c] = "body" =>
                   errorHint(response[c].status, response[c].body) # "undefined"
      ]_vars

NoNetworkCall == \A c \in Calls : pc[c] = "idle" /\ fetches[c] = 0

\* the timeout and the retries of a configuration are absent or in range
NumbersInRange(cfg) ==
    /\ cfg.timeout = Undef \/ (cfg.timeout.type = "number" /\ cfg.timeout.n > 0)
    /\ cfg.retries = Undef \/ (cfg.retries.type = "number" /\ cfg.retries.n >= 0)

\* C18: new MoltgramClient(config) with an apiKey that is a non-empty
\* string not starting with 'moltgram_' throws ConfigurationError and no
\* network call is made; with the apiKey absent or undefined (and timeout
\* and retries in range) the client is built.
C18_BadPrefixRejected ==
    built \notin {"none", "HttpClient"} =>
        /\ ( /\ config.apiKey.type = "string"
             /\ config.apiKey.chars # << >>
             /\ ~StartsWith(config.apiKey.chars, API_KEY_PREFIX) )
           => (built = "ConfigurationError" /\ NoNetworkCall)
        /\ (config.apiKey = Undef /\ NumbersInRange(config))
           => built = "MoltgramClient"

\* 'invalid_key', with nothing else in the configuration, was refused
C18_Witness ==
    /\ built = "ConfigurationError"
    /\ config = [apiKey |-> KeyInvalid, timeout |-> Undef, retries |-> Undef]
    /\ NoNetworkCall

\* C19: new MoltgramClient(config) with timeout <= 0 or retries < 0 throws
\* ConfigurationError: no client exists and no request is ever started.
C19_BadNumbersRejected ==
    ( /\ built \notin {"none", "HttpClient"}
      /\ \/ (config.timeout.type = "number" /\ config.timeout.n <= 0)
         \/ (config.retries.type = "number" /\ config.retries.n < 0) )
    => (built = "ConfigurationError" /\ ~ClientExists /\ NoNetworkCall)

\* a timeout of 0 with a well-formed key was refused
C19_Witness ==
    /\ built = "ConfigurationError"
    /\ config = [apiKey |-> KeyTest123, timeout |-> Num(0), retries |-> Undef]
    /\ NoNetworkCall

\* characters the key format asks for after the prefix
API_KEY_MIN_BODY == 20

\* C20: a client that exists has a credential that, if present, starts
\* with 'moltgram_' and has the minimum length, a timeout > 0 and a retry
\* count >= 0.
C20_ConfigInvariant ==
    ClientExists =>
        /\ Truthy(apiKey) =>
              /\ apiKey.type = "string"
              /\ StartsWith(apiKey.chars, API_KEY_PREFIX)
              /\ Len(apiKey.chars) >= Len(API_KEY_PREFIX) + API_KEY_MIN_BODY
        /\ timeout > 0
        /\ retries >= 0

\* the step in which call c hands its first attempt to fetch
Sends(c) == outgoing[c] = NotSent /\ outgoing'[c] # NotSent

\* the credential the caller configured: the key of the latest setApiKey
\* call that returned, else the apiKey passed to the constructor
ConfiguredCredential == IF setKey # Undef THEN setKey ELSE config.apiKey

\* the request call c sends carries no Authorization header but the one
\* its configured or per-call headers name
NoAuthorizationOfClient(c) ==
    LET headers == outgoing'[c].headers
        supplied == Spread(customHeaders, requests[c].headers)
    IN  /\ "Authorization" \in DOMAIN headers <=> "Authorization" \in DOMAIN supplied
        /\ "Authorization" \in DOMAIN headers
              => headers["Authorization"] = supplied["Authorization"]

\* the request call c sends carries Authorization: Bearer key
CarriesBearer(c, key) ==
    /\ "Authorization" \in DOMAIN outgoing'[c].headers
    /\ outgoing'[c].headers["Authorization"] = Bearer(key)

\* C21: with no credential configured (none passed to the constructor,
\* none set by setApiKey) a request carries no Authorization header of the
\* client; with a credential k configured it carries Authorization: Bearer k.
C21_AuthorizationIffConfigured ==
    [][\A c \in Calls :
         Sends(c) =>
            IF Truthy(ConfiguredCredential)
            THEN CarriesBearer(c, ConfiguredCredential)
            ELSE NoAuthorizationOfClient(c)
      ]_vars

\* the credential the client holds: the configured one if it is truthy,
\* else the MOLTBOOK_API_KEY of the environment at construction
EffectiveCredential ==
    IF setKey # Undef THEN setKey
    ELSE IF Truthy(config.apiKey) THEN config.apiKey ELSE envKey

\* C21 amended: with no credential held (none passed to the constructor,
\* none in MOLTBOOK_API_KEY when it ran, none set by setApiKey) a request
\* carries no Authorization header of the client; with a credential k held
\* it carries Authorization: Bearer k.
C21_AuthorizationIffHeld ==
    [][\A c \in Calls :
         Sends(c) =>
            IF Truthy(EffectiveCredential)
            THEN CarriesBearer(c, EffectiveCredential)
            ELSE NoAuthorizationOfClient(c)
      ]_vars

\* a client built without apiKey, with no key in the environment and no
\* Authorization among its headers, sent a request without the header
C21_Witness ==
    /\ built = "MoltgramClient"
    /\ config.apiKey = Undef
    /\ envKey = Undef
    /\ setKey = Undef
    /\ outgoing["A"] # NotSent
    /\ "Authorization" \notin DOMAIN outgoing["A"].headers

\* the header keys both the configured and the per-call headers of call c supply
SuppliedByBoth(c) == DOMAIN customHeaders \cap DOMAIN requests[c].headers

\* C22: for every header key supplied both by the configured headers and
\* by the per-call headers, Authorization included, the value sent is the
\* per-call value.
C22_CallHeaderWins ==
    [][\A c \in Calls :
         Sends(c) =>
            \A k \in SuppliedByBoth(c) :
                outgoing'[c].headers[k] = requests[c].headers[k]
      ]_vars

\* C22 amended: for every header key supplied by both, the value sent is
\* the per-call value, except that Authorization is Bearer k, whatever the
\* headers say, when the client holds a credential k.
C22_CallHeaderWinsButCredential ==
    [][\A c \in Calls :
         Sends(c) =>
            \A k \in SuppliedByBoth(c) :
                outgoing'[c].headers[k] =
                    (IF k = "Authorization" /\ Truthy(EffectiveCredential)
                     THEN Bearer(EffectiveCredential)
                     ELSE requests[c].headers[k])
      ]_vars

\* configured and per-call headers both named Authorization, and the
\* request went out with the credential of the client
C22_Witness ==
    /\ outgoing["A"] # NotSent
    /\ "Authorization" \in SuppliedByBoth("A")
    /\ apiKey = KeyTest123
    /\ outgoing["A"].headers["Authorization"] = Bearer(KeyTest123)

\* the path of the base endpoint: its segments, without the empty one a
\* trailing slash leaves
EndpointPrefix(base) ==
    IF base.path # << >> /\ base.path[Len(base.path)] = ""
    THEN SubSeq(base.path, 1, Len(base.path) - 1) ELSE base.path

\* C23: the URL requested is the base endpoint URL with its own path
\* prefix (/api/v1 for the default base), followed by the request path.
C23_UrlKeepsBasePath ==
    [][\A c \in Calls :
         Sends(c) =>
            /\ outgoing'[c].url.origin = baseUrl.origin
            /\ outgoing'[c].url.path = EndpointPrefix(baseUrl) \o requests[c].path.segments
      ]_vars

\* the texts a query value of the model can be written as
ParamTexts == {"", "hot", "0", "25", "undefined"}

\* C24: the built URL holds exactly the query parameters whose value is
\* not undefined: one 'key=value' for each of them, 'key=' for an empty
\* string, and nothing for a parameter whose value is undefined.
C24_QueryParamsExact ==
    [][\A c \in Calls :
         Sends(c) =>
            LET query == requests[c].query
                search == outgoing'[c].url.search
                defined == {i \in 1 .. Len(query) : query[i].value # Undef}
            IN  /\ Len(search) = Cardinality(defined)
                /\ \A i \in 1 .. Len(query) :
                      /\ i \in defined =>
                            (query[i].key \o "=" \o StringOf(query[i].value)) \in Range(search)
                      /\ query[i].value = KeyEmpty =>
                            (query[i].key \o "=") \in Range(search)
                      /\ i \notin defined =>
                            \A text \in ParamTexts :
                                (query[i].key \o "=" \o text) \notin Range(search)
      ]_vars

\* { sort: 'hot', limit: undefined, q: '' } went out as sort=hot&q=
C24_Witness ==
    /\ outgoing["A"] # NotSent
    /\ Len(requests["A"].query) = 3
    /\ outgoing["A"].url.search = <<"sort=hot", "q=">>

\* C25: MoltgramClient.setApiKey(key) throws ConfigurationError and leaves
\* the credential as it was when key lacks the prefix 'moltgram_'; it
\* stores key when key has the prefix, and a request started after that is
\* sent with Authorization: Bearer key.
C25_SetApiKeyValidates ==
    [][built = "MoltgramClient" =>
         /\ keyVars' # keyVars =>
               IF StartsWith(setArg'.chars, API_KEY_PREFIX)
               THEN setOutcome' = "returned" /\ apiKey' = setArg'
               ELSE setOutcome' = "ConfigurationError" /\ apiKey' = apiKey
         /\ \A c \in Calls :
               (Sends(c) /\ setKey # Undef) => CarriesBearer(c, setKey)
      ]_vars

\* a client built with 'moltgram_test123' was given 'moltgram_', then
\* refused 'invalid_key', and sent its request with 'moltgram_'
C25_Witness ==
    /\ built = "MoltgramClient"
    /\ config.apiKey = KeyTest123
    /\ setKey = KeyPrefixOnly
    /\ setArg = KeyInvalid
    /\ setOutcome = "ConfigurationError"
    /\ outgoing["A"] # NotSent
    /\ outgoing["A"].headers["Authorization"] = Bearer(KeyPrefixOnly)

\* no response has reached the client: every call is yet to start or
\* waits for the answer to its first fetch
NoResponseYet ==
    \A c \in Calls : pc[c] = "idle" \/ (pc[c] = "fetching" /\ fetches[c] = 1)

\* a caller has called getRateLimitInfo in this step
ReadsSnapshot == heldId' # heldId

\* C26: before any response the accessors return null and isRateLimited
\* returns false; isRateLimited is true exactly when a snapshot is present
\* and its remaining is <= 0 (a remaining that is NaN is not); a call of an
\* accessor returns the snapshot, starts no request and leaves the snapshot
\* as it was.
C26_AccessorsArePure ==
    /\ [](NoResponseYet =>
             /\ getRateLimitInfo = Null
             /\ getRateLimitRemaining = NullNumber
             /\ getRateLimitReset = NullNumber
             /\ ~ isRateLimited)
    /\ [](isRateLimited <=>
             /\ rateLimitInfo # Null
             /\ rateLimitInfo.remaining # NaN
             /\ rateLimitInfo.remaining <= 0)
    /\ [][ReadsSnapshot =>
             /\ held' = rateLimitInfo
             /\ UNCHANGED <<rateLimitInfo, pc, fetches, outgoing, updates>>
       ]_vars

\* the client holds the snapshot of a response with remaining 0, a caller
\* has read it, and isRateLimited answers true
C26_Witness ==
    /\ rateLimitInfo = SnapshotOf(HeadersB)
    /\ lastFull = HeadersB
    /\ held = rateLimitInfo
    /\ heldId = SnapshotId
    /\ getRateLimitRemaining = 0
    /\ isRateLimited

\* the offset the iteration starts from: options.offset, 0 without one
StartOffset == IF iter.options.offset = Undefined THEN 0 ELSE iter.options.offset

\* the pages fetched so far that have items, in the order fetched
NonEmptyPages ==
    SelectSeq([k \in 1 .. Len(pages) |-> [offset |-> listCalls[k], length |-> pages[k]]],
              LAMBDA page : page.length > 0)

\* the consumer asks for the next page in this step
AsksNext == iter.pc = "yielded" /\ iter'.pc \notin {"yielded", "returned"}

PositionOf(id) ==
    IF \E k \in 1 .. Len(flattened.value) : flattened.value[k].id = id
    THEN CHOOSE k \in 1 .. Len(flattened.value) : flattened.value[k].id = id
    ELSE 0

\* comment a is above comment id in the tree
RECURSIVE IsAbove(_, _)
IsAbove(a, id) ==
    /\ id # 0
    /\ \/ forest.parent[id] = a
       \/ IsAbove(a, forest.parent[id])

\* the comments below comment id
Below(id) == {k \in 1 .. forest.n : IsAbove(id, k)}

\* comment a is listed before comment b among the replies they both are in
ListedBefore(a, b) == IF forest.descending THEN a > b ELSE a < b

\* C28: flatten returns every comment of the tree exactly once, without
\* its replies field and otherwise as it was, in depth-first pre-order (a
\* comment comes right before the comments below it, and replies to the
\* same comment keep the order of the list they are in); count returns the
\* number of comments of the tree, which is the length of what flatten
\* returns.
C28_FlattenPreOrder ==
    /\ flattened # NotCalled =>
          /\ Len(flattened.value) = forest.n
          /\ \A id \in 1 .. forest.n :
                /\ PositionOf(id) # 0
                /\ flattened.value[PositionOf(id)] =
                      [id |-> id, parentId |-> forest.parent[id]]
                /\ {PositionOf(k) : k \in Below(id)} =
                      PositionOf(id) + 1 .. PositionOf(id) + Cardinality(Below(id))
          /\ \A a, b \in 1 .. forest.n :
                (forest.parent[a] = forest.parent[b] /\ ListedBefore(a, b) /\ a # b)
                   => PositionOf(a) < PositionOf(b)
    /\ counted # NotCalled => counted.value = forest.n
    /\ (flattened # NotCalled /\ counted # NotCalled)
          => counted.value = Len(flattened.value)

\* a tree of four comments, 2 and 3 replies to 1 listed 3 first and 4 a
\* reply to 2, was flattened to 1, 3, 2, 4 and counted as 4
C28_Witness ==
    /\ forest.n = 4
    /\ forest.parent = <<0, 1, 1, 2>>
    /\ forest.descending
    /\ flattened # NotCalled
    /\ [k \in 1 .. 4 |-> flattened.value[k].id] = <<1, 3, 2, 4>>
    /\ counted # NotCalled
    /\ counted.value = 4

\* C29: every request call that has started eventually settles, whatever
\* the transport does, given that armed timers fire and sleeps end.
C29_EveryCallSettles ==
    \A c \in Calls : (pc[c] \in {"fetching", "body", "sleeping"}) ~> Settled(c)

\* C30: once a request call has settled, none of the timeout timers it
\* armed for its attempts is pending.
C30_NoTimerLeftPending ==
    \A c \in Calls : Settled(c) => timers[c] = {}

\* call c hands a request to fetch in this step
CallsFetch(c) == fetches'[c] = fetches[c] + 1

\* C31: what a request call sends is fixed when it starts: each later
\* attempt of the call hands fetch the method, url, headers and body of its
\* first attempt, and a setApiKey while the call is in flight changes
\* nothing the call sends; a call that starts sends the key held then.
C31_AttemptsSendTheSame ==
    [][\A c \in Calls :
         /\ (outgoing[c] # NotSent) => outgoing'[c] = outgoing[c]
         /\ (Sends(c) /\ Truthy(apiKey)) => CarriesBearer(c, apiKey)
      ]_vars

\* the events of the history of one kind
EventsOf(kind) == SelectSeq(retryLog, LAMBDA event : event.e = kind)

\* the number of the call of fn that event i of the history belongs to
CallBefore(i) == Cardinality({j \in 1 .. i : retryLog[j].e = "fn"}) - 1

\* the retries the call was given: options.retries, 3 without one
RetriesGiven ==
    IF retryRun.options.retries = Undefined THEN 3 ELSE retryRun.options.retries

\* the wait the claim names for the sleep after call k
ClaimedSleep(k) ==
    LET delayMs == IF retryRun.options.delay = Undefined THEN 1000
                   ELSE retryRun.options.delay
        maxDelay == IF retryRun.options.maxDelay = Undefined THEN 30000
                    ELSE retryRun.options.maxDelay
        grown == delayMs * (2 ^ k)
    IN  IF grown < maxDelay THEN grown ELSE maxDelay

\* C32: retry calls fn at most retries + 1 times; it resolves with the
\* result of the first call that succeeds and makes no call after it; it
\* rejects, after retries + 1 failed calls, with the error of the last one;
\* after failed call k that is not the last it calls onRetry(error, k) once
\* (when one was passed) and then sleeps min(delay * 2^k, maxDelay) and
\* then calls fn again; after the last failed call it calls neither.
C32_RetryProtocol ==
    /\ Len(EventsOf("fn")) <= RetriesGiven + 1
    /\ \A i \in 1 .. Len(retryLog) :
          LET event == retryLog[i]
              k == CallBefore(i)
              last == i = Len(retryLog)
          IN  /\ event.e = "fn" => event.k = k
              /\ event.e = "resolved" =>
                    /\ last /\ retryLog[i - 1].e = "fn"
                    /\ retryRun.pc = "resolved" /\ retryRun.settled = event.value
              /\ event.e = "rejected" =>
                    /\ retryLog[i - 1].e = "fn" /\ event.error = k
                    /\ IF k = RetriesGiven
                       THEN last /\ retryRun.pc = "rejected"
                            /\ retryRun.settled = event.error
                       ELSE /\ ~ last
                            /\ retryLog[i + 1].e =
                                  (IF retryRun.options.onRetry THEN "onRetry" ELSE "sleep")
              /\ event.e = "onRetry" =>
                    /\ retryLog[i - 1] = FnRejected(event.error)
                    /\ event.attempt = k
                    /\ ~ last /\ retryLog[i + 1].e = "sleep"
              /\ event.e = "sleep" =>
                    /\ event.ms = ClaimedSleep(k)
                    /\ retryLog[i - 1].e \in {"rejected", "onRetry"}
                    /\ IF last THEN retryRun.pc = "sleeping"
                       ELSE retryLog[i + 1].e = "fn"
    /\ retryRun.pc = "rejected" =>
          /\ Len(EventsOf("fn")) = RetriesGiven + 1
          /\ Len(EventsOf("resolved")) = 0
    /\ retryRun.pc = "resolved" => Len(EventsOf("resolved")) = 1

\* retry with retries 2, delay 500, maxDelay 1500 and an onRetry: fn failed
\* three times, onRetry ran after the first two, the sleeps were 500 and
\* 1000, and retry rejected with the third error
C32_Witness ==
    /\ retryRun.options = RetryOptions(2, 500, 1500, TRUE)
    /\ retryRun.pc = "rejected"
    /\ retryRun.settled = 2
    /\ EventsOf("sleep") = <<SleepCalled(500), SleepCalled(1000)>>
    /\ EventsOf("onRetry") = <<OnRetryCalled(0, 0), OnRetryCalled(1, 1)>>

\* ------------------------------------------------------ C33: cache size
\* the step is a call of the operation of the cache, for the key
CacheCalled(op, key) ==
    /\ clock' = clock
    /\ <<cache, cacheLog>>' # <<cache, cacheLog>>
    /\ cacheLog' # << >>
    /\ cacheLog'.op = op
    /\ cacheLog'.key = key

SetCalled(key) == CacheCalled("set", key)

\* the entries a Map holds under other keys than the one given
Others(store, key) == {entry \in Range(store) : entry.key # key}

\* no entry of the Map was stored before this one
IsOldest(store, entry) ==
    \A other \in Range(store) : entry.timestamp <= other.timestamp

\* C33: a cache with maxSize m >= 1 never holds more than m entries, and
\* a set of a new key that finds it full and returns has removed one entry,
\* an entry no other is older than, and has kept the others as they were
C33_SizeAndEviction ==
    /\ [](cache.made /\ cache.maxSize >= 1 => Len(cache.store) <= cache.maxSize)
    /\ [][\A key \in CacheKeys :
            /\ SetCalled(key)
            /\ cache.maxSize >= 1
            /\ Len(cache.store) = cache.maxSize
            /\ ~ MapHas(cache.store, key)
            /\ ~ cache'.spinning
            => \E evicted \in Range(cache.store) :
                  /\ IsOldest(cache.store, evicted)
                  /\ Others(cache'.store, key) = Range(cache.store) \ {evicted}]_vars

\* a set of a new key has found a cache of maxSize 2 full, its two entries
\* stored at different times, and has returned
C33_Witness ==
    /\ cache.made
    /\ cache.maxSize = 2
    /\ cacheLog # << >>
    /\ cacheLog.op = "set"
    /\ Len(cacheLog.found) = 2
    /\ cacheLog.key \notin Range(cacheLog.found)
    /\ ~ cache.spinning
    /\ Len(cache.store) = 2
    /\ cache.store[1].key = cacheLog.found[2]
    /\ cache.store[2].key = cacheLog.key
    /\ cache.store[1].timestamp < cache.store[2].timestamp

\* ----------------------------------------------------- C34: expiry
\* the entry may still be returned: the time is not past its expiry
InTime(entry) == clock <= entry.expiresAt

\* the entries of a Map that may still be returned, in its order
InTimeOnly(store) == SelectSeq(store, InTime)

\* C34: set stores its entry with the time of the call, to expire ttl
\* later; get returns the value and has reports the key exactly when the
\* key is stored and the time is not past the expiry of its entry; a get
\* or has that meets an expired entry removes it; a get that hits moves
\* the expiry to the time of the call plus ttl when refreshOnAccess is set
\* and leaves it otherwise; keys, values and entries list the entries that
\* are not expired and no other
C34_NeverReturnsExpired ==
    [][\A key \in CacheKeys :
          LET stored == MapHas(cache.store, key)
              entry == MapGet(cache.store, key)
              hit == stored /\ InTime(entry)
          IN  /\ SetCalled(key) /\ ~ cache'.spinning
                 => /\ MapHas(cache'.store, key)
                    /\ MapGet(cache'.store, key).timestamp = clock
                    /\ MapGet(cache'.store, key).expiresAt = clock + cache.ttl
              /\ CacheCalled("get", key)
                 => /\ cacheLog'.returned = IF hit THEN entry.value ELSE Undefined
                    /\ stored /\ ~ hit => ~ MapHas(cache'.store, key)
                    /\ hit => /\ MapHas(cache'.store, key)
                              /\ MapGet(cache'.store, key).expiresAt =
                                   IF cache.refreshOnAccess THEN clock + cache.ttl
                                   ELSE entry.expiresAt
              /\ CacheCalled("has", key)
                 => /\ cacheLog'.returned = hit
                    /\ stored /\ ~ hit => ~ MapHas(cache'.store, key)
                    /\ hit => cache' = cache
              /\ CacheCalled("keys", key)
                 => cacheLog'.returned = MapKeys(InTimeOnly(cache.store))
              /\ CacheCalled("values", key)
                 => cacheLog'.returned =
                      [i \in 1 .. Len(InTimeOnly(cache.store)) |->
                          InTimeOnly(cache.store)[i].value]
              /\ CacheCalled("entries", key)
                 => cacheLog'.returned =
                      [i \in 1 .. Len(InTimeOnly(cache.store)) |->
                          <<InTimeOnly(cache.store)[i].key,
                            InTimeOnly(cache.store)[i].value>>]]_vars

\* in a cache that refreshes on access, a get at time 3 has met the entry
\* of its key expired, has returned undefined and has removed the entry
C34_Witness ==
    /\ cache.made
    /\ cache.refreshOnAccess
    /\ cache.ttl = 1
    /\ clock = 3
    /\ cacheLog # << >>
    /\ cacheLog.op = "get"
    /\ cacheLog.key \in Range(cacheLog.found)
    /\ cacheLog.returned = Undefined
    /\ ~ MapHas(cache.store, cacheLog.key)

\* ------------------------------------------- C36: set of a stored key
\* C36: a set of a key that is stored leaves the Map with the keys it
\* had, in a cache that is full as in one that is not
C36_SetReplacesOnly ==
    [][\A key \in CacheKeys :
          SetCalled(key) /\ MapHas(cache.store, key)
          => /\ Len(cache'.store) = Len(cache.store)
             /\ Range(MapKeys(cache'.store)) = Range(MapKeys(cache.store))]_vars

\* ------------------------------------------- C37: set comes to an end
\* C37: no call of set stays in its eviction loop for ever
C37_SetTerminates == cache.made => ~ cache.spinning

\* ------------------------------------------------- C35: LRU cache size
\* the step is a call of set of the LRU cache for the key
LruSetCalled(key) ==
    /\ lru' # lru
    /\ lru'.did # << >>
    /\ lru'.did.op = "set"
    /\ lru'.did.key = key

\* C35: an LRU cache of maxSize m >= 1 never holds more than m entries,
\* and a set of a key that is not stored and finds m entries removes the
\* key whose latest use, by a get that hit or by a set, is the oldest
C35_LruSizeAndEviction ==
    /\ [](lru.made /\ lru.maxSize >= 1 => Len(lru.store) <= lru.maxSize)
    /\ [][\A key \in CacheKeys :
            /\ LruSetCalled(key)
            /\ lru.maxSize >= 1
            /\ Len(lru.store) = lru.maxSize
            /\ ~ MapHas(lru.store, key)
            => Range(MapKeys(lru'.store)) =
                 (Range(MapKeys(lru.store)) \ {lru.used[1]}) \cup {key}]_vars

\* ---------------------------------------------- C38: memoize, once
\* C38: two invocations of fn for the same key are more than the TTL apart
C38_InvokedOncePerKey ==
    memo.made =>
       \A key \in MemoKeys :
          \A i, j \in 1 .. Len(memo.invoked[key]) :
             i < j => memo.invoked[key][j] - memo.invoked[key][i] > memo.cache.ttl

\* ------------------------------------- C39: the helper under interleaving
\* C39: at most one call of fetchFn is unsettled, the pages in items are
\* those asked for at offsets 0, limit, 2 * limit, ... since the last
\* reset, in that order, and offset is limit times their number
C39_OneFetchPagesInOrder ==
    scroll.made =>
       /\ Cardinality(scroll.fetches) <= 1
       /\ \A i \in 1 .. Len(scroll.items) :
             /\ scroll.items[i].offset = (i - 1) * scroll.limit
             /\ scroll.items[i].resets = scroll.resets
       /\ scroll.offset = scroll.limit * Len(scroll.items)

\* ------------------------------------------- C40: a fetch that rejects
\* the step is the rejection of a call of fetchFn
Rejected ==
    /\ scroll' # scroll
    /\ scroll'.did # << >>
    /\ scroll'.did.how = "rejected"

\* C40: when fetchFn rejects, loadMore rejects, loading is false again and
\* items, offset and hasMore are as they were; and a loadMore that calls
\* fetchFn asks for the offset of the helper
C40_RejectionKeepsState ==
    /\ [][Rejected =>
            /\ scroll'.did.fetch \in scroll.fetches
            /\ scroll'.did.fetch \notin scroll'.fetches
            /\ ~ scroll'.loading
            /\ scroll'.items = scroll.items
            /\ scroll'.offset = scroll.offset
            /\ scroll'.hasMore = scroll.hasMore]_vars
    /\ [][scroll' # scroll /\ scroll'.did = [how |-> "called fetchFn"]
            => scroll'.fetches = scroll.fetches \cup
                 {[offset |-> scroll.offset, resets |-> scroll.resets]}]_vars

\* the fetch of the second page was rejected: the helper holds the first
\* page, is not loading and is where it was to ask for the second
C40_Witness ==
    /\ scroll.made
    /\ scroll.did # << >>
    /\ scroll.did.how = "rejected"
    /\ scroll.did.fetch = [offset |-> scroll.limit, resets |-> 0]
    /\ Len(scroll.items) = 1
    /\ scroll.offset = scroll.limit
    /\ scroll.hasMore
    /\ ~ scroll.loading
    /\ scroll.fetches = {}

====
